---- MODULE Spec2Model ----
(***************************************************************************)
(* A model of VRPSolverEasy/src/solver.py: the validated entities          *)
(* (VehicleType, Point, Customer, Depot, Link, Parameters), the validated  *)
(* registries (VehicleTypesDict, PointsDict, LinksDict) and the model      *)
(* builder CreateModel with its serialization.                             *)
(*                                                                         *)
(* Python values are modelled with their dynamic type, because the code    *)
(* decides on isinstance() and on Python's == (1 == 1.0 == True).          *)
(* The names of the wire fields and of the error codes live in             *)
(* VRPSolverEasy/src/constants.py; they are written here by the name of    *)
(* the constant the source uses ("VEHICLE_TYPE.ID", "ADD_POINT_ERROR").    *)
(***************************************************************************)
EXTENDS Integers, Sequences, FiniteSets, TLC

VARIABLES vehicle_types, points, links, parameters, result, entity,
          solution, environ, other, shared

vars == <<vehicle_types, points, links, parameters, result, entity,
          solution, environ, other, shared>>

\* What the calls that build a model and the entities on their own neither
\* read nor write: the solution of the model, the library path of the
\* process, a second CreateModel, and the list that is the default of
\* add_point.
unread == <<solution, environ, other, shared>>

(***************************************************************************)
(* Bounds of the exploration.                                              *)
(***************************************************************************)
\* Entries the three registries of one explored model hold together.
MaxEntries == 3

\* The largest status code of the responses explored.
MaxStatus == 10

\* The most items a list of incompatible vehicles is grown to.
MaxItems == 2

(***************************************************************************)
(* Python values: a dynamic type, a number, a string and the items of a    *)
(* list or tuple. A float is modelled by an integral value n (n.0).        *)
(***************************************************************************)
PyInt(n)     == [n |-> n, ty |-> "int", s |-> "", items |-> <<>>]
PyFloat(n)   == [n |-> n, ty |-> "float", s |-> "", items |-> <<>>]
PyBool(b)    == [n |-> IF b THEN 1 ELSE 0, ty |-> "bool", s |-> "", items |-> <<>>]
PyStr(s)     == [n |-> 0, ty |-> "str", s |-> s, items |-> <<>>]
PyList(xs)   == [n |-> 0, ty |-> "list", s |-> "", items |-> xs]
PyTuple(xs)  == [n |-> 0, ty |-> "tuple", s |-> "", items |-> xs]

\* isinstance(x, int): bool is a subclass of int.
isinstance_int(x)    == x.ty \in {"int", "bool"}
\* isinstance(x, (int, float))
isinstance_number(x) == x.ty \in {"int", "bool", "float"}
isinstance_str(x)    == x.ty = "str"
isinstance_bool(x)   == x.ty = "bool"
isinstance_list(x)   == x.ty = "list"
isinstance_tuple(x)  == x.ty = "tuple"

\* Python's ==: numbers compare by value across int, bool and float;
\* everything else needs the same type and the same content.
PyEq(a, b) ==
    IF isinstance_number(a) /\ isinstance_number(b) THEN a.n = b.n
    ELSE a.ty = b.ty /\ a.s = b.s /\ a.items = b.items

\* Python's truth value.
PyTruth(x) ==
    IF isinstance_number(x) THEN x.n # 0
    ELSE IF isinstance_str(x) THEN x.s # ""
    ELSE Len(x.items) > 0

(***************************************************************************)
(* Errors. PropertyError carries the prefix (the field it names) and the   *)
(* code of the violated constraint; ModelError carries a code.            *)
(***************************************************************************)
NoError == [type |-> "none", prefix |-> "", code |-> ""]

PropertyError(prefix, code) == [type |-> "PropertyError", prefix |-> prefix, code |-> code]

ModelError(code) == [type |-> "ModelError", prefix |-> "", code |-> code]

\* The first exception a sequence of statements raises.
FirstError(errs) ==
    IF \E i \in 1..Len(errs) : errs[i] # NoError
    THEN errs[CHOOSE i \in 1..Len(errs) :
                 /\ errs[i] # NoError
                 /\ \A j \in 1..(i - 1) : errs[j] = NoError]
    ELSE NoError

(***************************************************************************)
(* A dict of the wire format: the keys in `keys`, each with its value in   *)
(* `all`.                                                                  *)
(***************************************************************************)
Dict(keys, all) == [k \in keys |-> all[k]]

\* One optional key of a compacted dict: present when `emit` holds.
Opt(emit, key) == IF emit THEN {key} ELSE {}

(***************************************************************************)
(* class VehicleType                                                       *)
(***************************************************************************)
VehicleType_id(id) ==
    IF ~isinstance_int(id) THEN PropertyError("ID_STR", "INTEGER_PROPERTY")
    ELSE IF id.n < 1 THEN PropertyError("ID_STR", "GREATER_ONE_PROPERTY")
    ELSE NoError

VehicleType_name(name) ==
    IF ~isinstance_str(name)
    THEN PropertyError("VEHICLE_TYPE.NAME", "STRING_PROPERTY")
    ELSE NoError

VehicleType_capacity(capacity) ==
    IF ~isinstance_int(capacity)
    THEN PropertyError("VEHICLE_TYPE.CAPACITY", "INTEGER_PROPERTY")
    ELSE IF capacity.n < 0
    THEN PropertyError("VEHICLE_TYPE.CAPACITY", "GREATER_ZERO_PROPERTY")
    ELSE NoError

VehicleType_fixed_cost(fixed_cost) ==
    IF ~isinstance_number(fixed_cost)
    THEN PropertyError("VEHICLE_TYPE.FIXED_COST", "NUMBER_PROPERTY")
    ELSE NoError

VehicleType_var_cost_dist(var_cost_dist) ==
    IF ~isinstance_number(var_cost_dist)
    THEN PropertyError("VEHICLE_TYPE.VAR_COST_DIST", "NUMBER_PROPERTY")
    ELSE NoError

VehicleType_var_cost_time(var_cost_time) ==
    IF ~isinstance_number(var_cost_time)
    THEN PropertyError("VEHICLE_TYPE.VAR_COST_TIME", "NUMBER_PROPERTY")
    ELSE NoError

VehicleType_max_number(max_number) ==
    IF ~isinstance_int(max_number)
    THEN PropertyError("VEHICLE_TYPE.MAX_NUMBER", "INTEGER_PROPERTY")
    ELSE IF max_number.n < 0
    THEN PropertyError("VEHICLE_TYPE.MAX_NUMBER", "GREATER_ZERO_PROPERTY")
    ELSE NoError

VehicleType_start_point_id(start_point_id) ==
    IF ~isinstance_int(start_point_id)
    THEN PropertyError("VEHICLE_TYPE.START_POINT_ID", "INTEGER_PROPERTY")
    ELSE IF start_point_id.n < 0
    THEN PropertyError("VEHICLE_TYPE.START_POINT_ID", "GREATER_ZERO_PROPERTY")
    ELSE NoError

VehicleType_end_point_id(end_point_id) ==
    IF ~isinstance_int(end_point_id)
    THEN PropertyError("VEHICLE_TYPE.END_POINT_ID", "INTEGER_PROPERTY")
    ELSE IF end_point_id.n < 0
    THEN PropertyError("VEHICLE_TYPE.END_POINT_ID", "GREATER_ZERO_PROPERTY")
    ELSE NoError

VehicleType_tw_begin(tw_begin) ==
    IF ~isinstance_number(tw_begin)
    THEN PropertyError("VEHICLE_TYPE.TIME_WINDOWS_BEGIN", "NUMBER_PROPERTY")
    ELSE NoError

VehicleType_tw_end(tw_end) ==
    IF ~isinstance_number(tw_end)
    THEN PropertyError("VEHICLE_TYPE.TIME_WINDOWS_END", "NUMBER_PROPERTY")
    ELSE NoError

\* The defaults of VehicleType.__init__ for its optional arguments.
VehicleTypeDefaults ==
    [name |-> PyStr(""), capacity |-> PyInt(0), fixed_cost |-> PyFloat(0),
     var_cost_dist |-> PyFloat(0), var_cost_time |-> PyFloat(0),
     max_number |-> PyInt(1), tw_begin |-> PyInt(0), tw_end |-> PyInt(0)]

\* VehicleType.__init__: the setters run in the order of the assignments;
\* the object exists only when none of them raises.
VehicleType_init(a) ==
    [err |-> FirstError(<<VehicleType_name(a.name),
                          VehicleType_id(a.id),
                          VehicleType_capacity(a.capacity),
                          VehicleType_fixed_cost(a.fixed_cost),
                          VehicleType_var_cost_dist(a.var_cost_dist),
                          VehicleType_var_cost_time(a.var_cost_time),
                          VehicleType_max_number(a.max_number),
                          VehicleType_start_point_id(a.start_point_id),
                          VehicleType_end_point_id(a.end_point_id),
                          VehicleType_tw_begin(a.tw_begin),
                          VehicleType_tw_end(a.tw_end)>>),
     obj |-> [id |-> a.id,
              name |-> a.name, capacity |-> a.capacity, fixed_cost |-> a.fixed_cost,
              var_cost_dist |-> a.var_cost_dist, var_cost_time |-> a.var_cost_time,
              max_number |-> a.max_number, start_point_id |-> a.start_point_id,
              end_point_id |-> a.end_point_id,
              tw_begin |-> a.tw_begin,
              tw_end |-> a.tw_end, cls |-> "VehicleType"]]

\* The wire fields get_vehicle_type emits whatever their value.
VehicleTypeRequiredKeys ==
    {"VEHICLE_TYPE.ID", "VEHICLE_TYPE.START_POINT_ID", "VEHICLE_TYPE.END_POINT_ID"}

get_vehicle_type(vt, debug) ==
    LET all == ("VEHICLE_TYPE.ID" :> vt.id)
            @@ ("VEHICLE_TYPE.START_POINT_ID" :> vt.start_point_id)
            @@ ("VEHICLE_TYPE.END_POINT_ID" :> vt.end_point_id)
            @@ ("VEHICLE_TYPE.NAME" :> vt.name)
            @@ ("VEHICLE_TYPE.CAPACITY" :> vt.capacity)
            @@ ("VEHICLE_TYPE.FIXED_COST" :> vt.fixed_cost)
            @@ ("VEHICLE_TYPE.VAR_COST_DIST" :> vt.var_cost_dist)
            @@ ("VEHICLE_TYPE.VAR_COST_TIME" :> vt.var_cost_time)
            @@ ("VEHICLE_TYPE.MAX_NUMBER" :> vt.max_number)
            @@ ("VEHICLE_TYPE.TIME_WINDOWS_BEGIN" :> vt.tw_begin)
            @@ ("VEHICLE_TYPE.TIME_WINDOWS_END" :> vt.tw_end)
        keys == VehicleTypeRequiredKeys
            \cup Opt(~PyEq(vt.name, PyStr("")) \/ debug, "VEHICLE_TYPE.NAME")
            \cup Opt(~PyEq(vt.capacity, PyInt(0)) \/ debug, "VEHICLE_TYPE.CAPACITY")
            \cup Opt(~PyEq(vt.fixed_cost, PyInt(0)) \/ debug, "VEHICLE_TYPE.FIXED_COST")
            \cup Opt(~PyEq(vt.var_cost_dist, PyInt(0)) \/ debug,
                     "VEHICLE_TYPE.VAR_COST_DIST")
            \cup Opt(~PyEq(vt.var_cost_time, PyInt(0)) \/ debug,
                     "VEHICLE_TYPE.VAR_COST_TIME")
            \cup Opt(~PyEq(vt.max_number, PyInt(0)) \/ debug, "VEHICLE_TYPE.MAX_NUMBER")
            \cup Opt(~PyEq(vt.tw_begin, PyInt(0)) \/ debug,
                     "VEHICLE_TYPE.TIME_WINDOWS_BEGIN")
            \cup Opt(~PyEq(vt.tw_end, PyInt(0)) \/ debug,
                     "VEHICLE_TYPE.TIME_WINDOWS_END")
    IN Dict(keys, all)

(***************************************************************************)
(* class Point, and its specializations Customer and Depot                 *)
(***************************************************************************)
\* The largest point id, and the largest id_customer.
MAX_POINT_ID == 10000

MAX_ID_CUSTOMER == 1022

Point_id(id) ==
    IF ~isinstance_int(id) THEN PropertyError("POINT.ID", "INTEGER_PROPERTY")
    ELSE IF id.n < 0 THEN PropertyError("POINT.ID", "GREATER_ZERO_PROPERTY")
    ELSE IF id.n > MAX_POINT_ID
    THEN PropertyError("POINT.ID", "LESS_MAX_POINTS_ID_PROPERTY")
    ELSE NoError

Point_name(name) ==
    IF ~isinstance_str(name) THEN PropertyError("POINT.NAME", "STRING_PROPERTY")
    ELSE NoError

\* The setter of id_customer without the check of the largest id_customer.
Point_id_customer_unbounded(id_customer) ==
    IF ~isinstance_int(id_customer)
    THEN PropertyError("POINT.ID_CUSTOMER", "INTEGER_PROPERTY")
    ELSE IF id_customer.n < 0
    THEN PropertyError("POINT.ID_CUSTOMER", "GREATER_ZERO_PROPERTY")
    ELSE NoError

Point_id_customer(id_customer) ==
    IF ~isinstance_int(id_customer)
    THEN PropertyError("POINT.ID_CUSTOMER", "INTEGER_PROPERTY")
    ELSE IF id_customer.n < 0
    THEN PropertyError("POINT.ID_CUSTOMER", "GREATER_ZERO_PROPERTY")
    ELSE IF id_customer.n > MAX_ID_CUSTOMER
    THEN PropertyError("POINT.ID_CUSTOMER", "LESS_MAX_POINTS_PROPERTY")
    ELSE NoError

Point_penalty(penalty) ==
    IF ~isinstance_number(penalty)
    THEN PropertyError("POINT.PENALTY", "INTEGER_PROPERTY")
    ELSE NoError

Point_cost(cost) ==
    IF ~isinstance_number(cost)
    THEN PropertyError("POINT.COST", "INTEGER_PROPERTY")
    ELSE NoError

Point_service_time(service_time) ==
    IF ~isinstance_number(service_time)
    THEN PropertyError("POINT.SERVICE_TIME", "NUMBER_PROPERTY")
    ELSE NoError

Point_tw_begin(tw_begin) ==
    IF ~isinstance_number(tw_begin)
    THEN PropertyError("POINT.TIME_WINDOWS_BEGIN", "NUMBER_PROPERTY")
    ELSE NoError

Point_tw_end(tw_end) ==
    IF ~isinstance_number(tw_end)
    THEN PropertyError("POINT.TIME_WINDOWS_END", "NUMBER_PROPERTY")
    ELSE NoError

Point_time_windows(timeWindow) ==
    IF ~isinstance_tuple(timeWindow)
    THEN PropertyError("POINT.TIME_WINDOWS", "TUPLE_PROPERTY")
    ELSE IF Len(timeWindow.items) # 2
    THEN PropertyError("POINT.TIME_WINDOWS", "TUPLE_PROPERTY")
    ELSE IF ~isinstance_number(timeWindow.items[1])
            \/ ~isinstance_number(timeWindow.items[2])
    THEN PropertyError("POINT.TIME_WINDOWS_BEGIN", "NUMBER_PROPERTY")
    ELSE NoError

Point_demand(demand) ==
    IF ~isinstance_int(demand)
    THEN PropertyError("POINT.DEMAND", "INTEGER_PROPERTY")
    ELSE IF demand.n < 0
    THEN PropertyError("POINT.DEMAND", "GREATER_ZERO_PROPERTY")
    ELSE NoError

Point_capacity(capacity) ==
    IF ~isinstance_int(capacity)
    THEN PropertyError("POINT.CAPACITY", "INTEGER_PROPERTY")
    ELSE IF capacity.n < 0
    THEN PropertyError("POINT.CAPACITY", "GREATER_ZERO_PROPERTY")
    ELSE NoError

Point_demand_or_capacity(demand_or_capacity) ==
    IF ~isinstance_int(demand_or_capacity)
    THEN PropertyError("POINT.DEMAND_OR_CAPACITY", "INTEGER_PROPERTY")
    ELSE IF demand_or_capacity.n < 0
    THEN PropertyError("POINT.DEMAND_OR_CAPACITY", "GREATER_ZERO_PROPERTY")
    ELSE NoError

Point_incompatible_vehicles(incompatible_vehicles) ==
    IF ~isinstance_list(incompatible_vehicles)
    THEN PropertyError("POINT.INCOMPATIBLE_VEHICLES", "LIST_INTEGER_PROPERTY")
    ELSE IF /\ Len(incompatible_vehicles.items) > 0
            /\ \E i \in 1..Len(incompatible_vehicles.items) :
                   ~isinstance_int(incompatible_vehicles.items[i])
    THEN PropertyError("POINT.INCOMPATIBLE_VEHICLES", "LIST_INTEGER_PROPERTY")
    ELSE NoError

\* The defaults of Point.__init__ for its optional arguments.
PointDefaults ==
    [name |-> PyStr(""), tw_begin |-> PyInt(0), tw_end |-> PyInt(0),
     id_customer |-> PyInt(0), service_time |-> PyInt(0), demand_or_capacity |-> PyInt(0),
     incompatible_vehicles |-> PyList(<<>>), penalty_or_cost |-> PyFloat(0)]

\* Point.__init__. penalty_or_cost is a plain attribute: no property of that
\* name exists, so the assignment validates nothing and the attribute
\* _penalty_or_cost, which the penalty and cost properties read and write,
\* stays unset (priv_penalty_or_cost is empty). demand_or_capacity is
\* assigned through three setters with the same value.
Point_init(a) ==
    [err |-> FirstError(<<Point_name(a.name),
                          Point_id_customer(a.id_customer),
                          Point_id(a.id),
                          Point_service_time(a.service_time),
                          Point_tw_begin(a.tw_begin),
                          Point_tw_end(a.tw_end),
                          Point_time_windows(PyTuple(<<a.tw_begin, a.tw_end>>)),
                          Point_demand_or_capacity(a.demand_or_capacity),
                          Point_demand(a.demand_or_capacity),
                          Point_capacity(a.demand_or_capacity),
                          Point_incompatible_vehicles(a.incompatible_vehicles)>>),
     obj |-> [id |-> a.id,
              name |-> a.name, tw_begin |-> a.tw_begin, tw_end |-> a.tw_end,
              cls |-> "Point",
              id_customer |-> a.id_customer, service_time |-> a.service_time,
              demand_or_capacity |-> a.demand_or_capacity,
              incompatible_vehicles |-> a.incompatible_vehicles,
              penalty_or_cost |-> a.penalty_or_cost,
              time_windows |-> PyTuple(<<a.tw_begin, a.tw_end>>),
              priv_penalty_or_cost |-> <<>>]]

\* The object super().__init__ builds, as an instance of the subclass.
SubclassOf(cls, made) == [made EXCEPT !.obj.cls = cls]

\* isinstance(value, Point): Customer and Depot are subclasses of Point.
isinstance_Point(value) == value.cls \in {"Point", "Customer", "Depot"}

\* Customer.__init__(id, name, id_customer, penalty, service_time, tw_begin,
\* tw_end, demand, incompatible_vehicles): the arguments go to Point.__init__
\* unchanged, penalty as penalty_or_cost and demand as demand_or_capacity.
Customer_init(a) ==
    SubclassOf("Customer", Point_init([id |-> a.id, name |-> a.name, tw_begin |-> a.tw_begin,
                tw_end |-> a.tw_end, id_customer |-> a.id_customer,
                service_time |-> a.service_time, demand_or_capacity |-> a.demand,
                incompatible_vehicles |-> a.incompatible_vehicles,
                penalty_or_cost |-> a.penalty]))

\* The id_customer Depot.__init__ passes to Point.__init__.
DepotIdCustomer == PyInt(-1)

\* Depot.__init__(id, name, cost, service_time, tw_begin, tw_end, capacity,
\* incompatible_vehicles).
Depot_init(a) ==
    SubclassOf("Depot", Point_init([id |-> a.id, name |-> a.name, tw_begin |-> a.tw_begin,
                tw_end |-> a.tw_end, id_customer |-> DepotIdCustomer,
                service_time |-> a.service_time, demand_or_capacity |-> a.capacity,
                incompatible_vehicles |-> a.incompatible_vehicles,
                penalty_or_cost |-> a.cost]))

\* The wire fields get_point emits whatever their value.
PointRequiredKeys == {"id"}

get_point(pt, debug) ==
    LET all == ("id" :> pt.id)
            @@ ("POINT.NAME" :> pt.name)
            @@ ("POINT.ID_CUSTOMER" :> pt.id_customer)
            @@ ("POINT.SERVICE_TIME" :> pt.service_time)
            @@ ("POINT.TIME_WINDOWS_BEGIN" :> pt.tw_begin)
            @@ ("POINT.TIME_WINDOWS_END" :> pt.tw_end)
            @@ ("POINT.PENALTY_OR_COST" :> pt.penalty_or_cost)
            @@ ("POINT.DEMAND_OR_CAPACITY" :> pt.demand_or_capacity)
            @@ ("POINT.INCOMPATIBLE_VEHICLES" :> pt.incompatible_vehicles)
        keys == PointRequiredKeys
            \cup Opt(~PyEq(pt.name, PyStr("")) \/ debug, "POINT.NAME")
            \cup Opt(~PyEq(pt.id_customer, PyInt(0)) \/ debug, "POINT.ID_CUSTOMER")
            \cup Opt(~PyEq(pt.service_time, PyInt(0)) \/ debug, "POINT.SERVICE_TIME")
            \cup Opt(~PyEq(pt.tw_begin, PyInt(0)) \/ debug, "POINT.TIME_WINDOWS_BEGIN")
            \cup Opt(~PyEq(pt.tw_end, PyInt(0)) \/ debug, "POINT.TIME_WINDOWS_END")
            \cup Opt(~PyEq(pt.penalty_or_cost, PyInt(0)) \/ debug,
                     "POINT.PENALTY_OR_COST")
            \cup Opt(~PyEq(pt.demand_or_capacity, PyInt(0)) \/ debug,
                     "POINT.DEMAND_OR_CAPACITY")
            \cup Opt(~PyEq(pt.incompatible_vehicles, PyList(<<>>)) \/ debug,
                     "POINT.INCOMPATIBLE_VEHICLES")
    IN Dict(keys, all)

(***************************************************************************)
(* class Link                                                              *)
(***************************************************************************)
Link_name(name) ==
    IF ~isinstance_str(name) THEN PropertyError("LINK.NAME", "STRING_PROPERTY")
    ELSE NoError

Link_is_directed(is_directed) ==
    IF ~isinstance_bool(is_directed)
    THEN PropertyError("LINK.NAME", "BOOLEAN_PROPERTY")
    ELSE NoError

Link_start_point_id(start_point_id) ==
    IF ~isinstance_int(start_point_id)
    THEN PropertyError("LINK.START_POINT_ID", "INTEGER_PROPERTY")
    ELSE IF start_point_id.n < 0
    THEN PropertyError("LINK.START_POINT_ID", "GREATER_ZERO_PROPERTY")
    ELSE NoError

Link_end_point_id(end_point_id) ==
    IF ~isinstance_int(end_point_id)
    THEN PropertyError("LINK.END_POINT_ID", "INTEGER_PROPERTY")
    ELSE IF end_point_id.n < 0
    THEN PropertyError("LINK.END_POINT_ID", "GREATER_ZERO_PROPERTY")
    ELSE NoError

Link_distance(distance) ==
    IF ~isinstance_number(distance)
    THEN PropertyError("LINK.DISTANCE", "NUMBER_PROPERTY")
    ELSE IF distance.n < 0
    THEN PropertyError("LINK.DISTANCE", "GREATER_ZERO_PROPERTY")
    ELSE NoError

Link_time(time) ==
    IF ~isinstance_number(time)
    THEN PropertyError("LINK.TIME", "NUMBER_PROPERTY")
    ELSE IF time.n < 0
    THEN PropertyError("LINK.TIME", "GREATER_ZERO_PROPERTY")
    ELSE NoError

Link_fixed_cost(fixed_cost) ==
    IF ~isinstance_number(fixed_cost)
    THEN PropertyError("LINK.FIXED_COST", "NUMBER_PROPERTY")
    ELSE NoError

\* The defaults of Link.__init__: every argument is optional.
LinkDefaults ==
    [name |-> PyStr(""), fixed_cost |-> PyFloat(0),
     start_point_id |-> PyInt(0), end_point_id |-> PyInt(0),
     is_directed |-> PyBool(FALSE), distance |-> PyFloat(0), time |-> PyFloat(0)]

Link_init(a) ==
    [err |-> FirstError(<<Link_name(a.name),
                          Link_is_directed(a.is_directed),
                          Link_start_point_id(a.start_point_id),
                          Link_end_point_id(a.end_point_id),
                          Link_distance(a.distance),
                          Link_time(a.time),
                          Link_fixed_cost(a.fixed_cost)>>),
     obj |-> [name |-> a.name,
              fixed_cost |-> a.fixed_cost, start_point_id |-> a.start_point_id,
              end_point_id |-> a.end_point_id,
              cls |-> "Link",
              is_directed |-> a.is_directed, distance |-> a.distance,
              time |-> a.time]]

\* The wire fields get_link emits whatever their value.
LinkRequiredKeys == {"LINK.START_POINT_ID", "LINK.END_POINT_ID"}

get_link(lk, debug) ==
    LET all == ("LINK.START_POINT_ID" :> lk.start_point_id)
            @@ ("LINK.END_POINT_ID" :> lk.end_point_id)
            @@ ("LINK.NAME" :> lk.name)
            @@ ("LINK.IS_DIRECTED" :> lk.is_directed)
            @@ ("LINK.DISTANCE" :> lk.distance)
            @@ ("LINK.TIME" :> lk.time)
            @@ ("LINK.FIXED_COST" :> lk.fixed_cost)
        keys == LinkRequiredKeys
            \cup Opt(~PyEq(lk.name, PyStr("")) \/ debug, "LINK.NAME")
            \cup Opt(PyTruth(lk.is_directed) \/ debug, "LINK.IS_DIRECTED")
            \cup Opt(~PyEq(lk.distance, PyInt(0)) \/ debug, "LINK.DISTANCE")
            \cup Opt(~PyEq(lk.time, PyInt(0)) \/ debug, "LINK.TIME")
            \cup Opt(~PyEq(lk.fixed_cost, PyInt(0)) \/ debug, "LINK.FIXED_COST")
    IN Dict(keys, all)

(***************************************************************************)
(* class Parameters                                                        *)
(***************************************************************************)
\* constants.SOLVERS, constants.PRINT_LEVEL_LIST and constants.ACTIONS (here
\* ACTION_NAMES, the word being reserved), as
\* the docstring of set_parameters lists them.
SOLVERS == {"CLP", "CPLEX"}

PRINT_LEVEL_LIST == {-2, -1, 0, 1, 2}

ACTION_NAMES == {"solve", "enumAllFeasibleRoutes"}

\* The defaults get_parameters compares with.
DEFAULT_TIME_LIMIT == 300

DEFAULT_UPPER_BOUND == 1000000

DEFAULT_TIME_LIMIT_HEURISTIC == 20

DEFAULT_PRINT_LEVEL == -1

Parameters_time_limit(time_limit) ==
    IF ~isinstance_number(time_limit)
    THEN PropertyError("PARAMETERS.TIME_LIMIT", "NUMBER_PROPERTY")
    ELSE IF time_limit.n < 0
    THEN PropertyError("PARAMETERS.TIME_LIMIT", "GREATER_ZERO_PROPERTY")
    ELSE NoError

Parameters_upper_bound(upper_bound) ==
    IF ~isinstance_number(upper_bound)
    THEN PropertyError("PARAMETERS.UPPER_BOUND", "NUMBER_PROPERTY")
    ELSE NoError

Parameters_heuristic_used(heuristic_used) ==
    IF ~isinstance_bool(heuristic_used)
    THEN PropertyError("PARAMETERS.HEURISTIC_USED", "BOOLEAN_PROPERTY")
    ELSE NoError

Parameters_time_limit_heuristic(time_limit_heuristic) ==
    IF ~isinstance_number(time_limit_heuristic)
    THEN PropertyError("PARAMETERS.TIME_LIMIT_HEURISTIC", "NUMBER_PROPERTY")
    ELSE IF time_limit_heuristic.n < 0
    THEN PropertyError("PARAMETERS.TIME_LIMIT_HEURISTIC", "GREATER_ZERO_PROPERTY")
    ELSE NoError

Parameters_config_file(config_file) ==
    IF ~isinstance_str(config_file)
    THEN PropertyError("PARAMETERS.CONFIG_FILE", "STRING_PROPERTY")
    ELSE NoError

Parameters_solver_name(solver_name) ==
    IF ~isinstance_str(solver_name)
    THEN PropertyError("PARAMETERS.SOLVER_NAME", "STRING_PROPERTY")
    ELSE IF solver_name.s \notin SOLVERS
    THEN PropertyError("PARAMETERS.SOLVER_NAME", "ENUM_STR_PROPERTY")
    ELSE NoError

Parameters_print_level(print_level) ==
    IF ~isinstance_int(print_level)
    THEN PropertyError("PARAMETERS.PRINT_LEVEL", "NUMBER_PROPERTY")
    ELSE IF print_level.n \notin PRINT_LEVEL_LIST
    THEN PropertyError("PARAMETERS.PRINT_LEVEL", "ENUM_INT_PROPERTY")
    ELSE NoError

\* An action outside constants.ACTIONS raises a plain Exception, not a PropertyError.
Parameters_action(action) ==
    IF ~isinstance_str(action)
    THEN PropertyError("PARAMETERS.ACTION", "STRING_PROPERTY")
    ELSE IF action.s \notin ACTION_NAMES
    THEN [type |-> "Exception", prefix |-> "PARAMETERS.ACTION",
          code |-> "ENUM_STR_PROPERTY"]
    ELSE NoError

Parameters_cplex_path(cplex_path) ==
    IF ~isinstance_str(cplex_path)
    THEN PropertyError("PARAMETERS.CPLEX_PATH", "STRING_PROPERTY")
    ELSE NoError

\* The defaults of Parameters.__init__ and of set_parameters.
ParametersDefaults ==
    [time_limit |-> PyInt(DEFAULT_TIME_LIMIT),
     upper_bound |-> PyInt(DEFAULT_UPPER_BOUND),
     heuristic_used |-> PyBool(FALSE),
     time_limit_heuristic |-> PyInt(DEFAULT_TIME_LIMIT_HEURISTIC),
     config_file |-> PyStr(""), solver_name |-> PyStr("CLP"),
     print_level |-> PyInt(DEFAULT_PRINT_LEVEL), action |-> PyStr("solve"),
     cplex_path |-> PyStr("")]

Parameters_init(a) ==
    [err |-> FirstError(<<Parameters_time_limit(a.time_limit),
                          Parameters_upper_bound(a.upper_bound),
                          Parameters_heuristic_used(a.heuristic_used),
                          Parameters_time_limit_heuristic(a.time_limit_heuristic),
                          Parameters_config_file(a.config_file),
                          Parameters_solver_name(a.solver_name),
                          Parameters_print_level(a.print_level),
                          Parameters_action(a.action),
                          Parameters_cplex_path(a.cplex_path)>>),
     obj |-> [cls |-> "Parameters",
              time_limit |-> a.time_limit, upper_bound |-> a.upper_bound,
              heuristic_used |-> a.heuristic_used,
              time_limit_heuristic |-> a.time_limit_heuristic,
              config_file |-> a.config_file, solver_name |-> a.solver_name,
              print_level |-> a.print_level, action |-> a.action,
              cplex_path |-> a.cplex_path]]

\* The wire fields get_parameters emits whatever their value.
ParametersRequiredKeys == {"PARAMETERS.TIME_LIMIT", "PARAMETERS.ACTION"}

\* get_parameters never emits cplex_path: its dict has the eight keys below.
get_parameters(pr, debug) ==
    LET all == ("PARAMETERS.TIME_LIMIT" :> pr.time_limit)
            @@ ("PARAMETERS.ACTION" :> pr.action)
            @@ ("PARAMETERS.UPPER_BOUND" :> pr.upper_bound)
            @@ ("PARAMETERS.HEURISTIC_USED" :> pr.heuristic_used)
            @@ ("PARAMETERS.TIME_LIMIT_HEURISTIC" :> pr.time_limit_heuristic)
            @@ ("PARAMETERS.CONFIG_FILE" :> pr.config_file)
            @@ ("PARAMETERS.SOLVER_NAME" :> pr.solver_name)
            @@ ("PARAMETERS.PRINT_LEVEL" :> pr.print_level)
        keys == ParametersRequiredKeys
            \cup Opt(~PyEq(pr.upper_bound, PyInt(DEFAULT_UPPER_BOUND)) \/ debug,
                     "PARAMETERS.UPPER_BOUND")
            \cup Opt(PyTruth(pr.heuristic_used) \/ debug, "PARAMETERS.HEURISTIC_USED")
            \cup Opt(~PyEq(pr.time_limit_heuristic,
                           PyInt(DEFAULT_TIME_LIMIT_HEURISTIC)) \/ debug,
                     "PARAMETERS.TIME_LIMIT_HEURISTIC")
            \cup Opt(~PyEq(pr.config_file, PyStr("")) \/ debug, "PARAMETERS.CONFIG_FILE")
            \cup Opt(~PyEq(pr.solver_name, PyStr("CLP")) \/ debug,
                     "PARAMETERS.SOLVER_NAME")
            \cup Opt(~PyEq(pr.print_level, PyInt(DEFAULT_PRINT_LEVEL)) \/ debug,
                     "PARAMETERS.PRINT_LEVEL")
    IN Dict(keys, all)

(***************************************************************************)
(* The registries. A Python dict keeps its entries in insertion order, so  *)
(* a registry is the sequence of its entries [key, value]; looking a key   *)
(* up compares with Python's ==.                                           *)
(***************************************************************************)
\* An exception of a builtin type.
Raised(type) == [type |-> type, prefix |-> "", code |-> ""]

\* hash(x) raises nothing: a list has no hash, nor a tuple that holds one.
RECURSIVE hashable(_)
hashable(x) ==
    /\ x.ty # "list"
    /\ x.ty = "tuple" => \A i \in 1..Len(x.items) : hashable(x.items[i])

\* dict.__contains__: x in registry, which raises TypeError on an x without
\* a hash.
dict_contains(reg, x) ==
    IF ~hashable(x) THEN Raised("TypeError")
    ELSE \E i \in 1..Len(reg) : PyEq(reg[i].key, x)

\* The position of the entry of key x.
dict_index(reg, x) == CHOOSE i \in 1..Len(reg) : PyEq(reg[i].key, x)

\* dict.__setitem__: a present key keeps its place and gets the new value.
dict_setitem(reg, key, value) ==
    IF dict_contains(reg, key)
    THEN [reg EXCEPT ![dict_index(reg, key)].value = value]
    ELSE Append(reg, [key |-> key, value |-> value])

\* dict.__delitem__ of a present key.
dict_delitem(reg, key) ==
    LET i == dict_index(reg, key)
    IN SubSeq(reg, 1, i - 1) \o SubSeq(reg, i + 1, Len(reg))

\* The most entries the point registry holds.
MAX_POINTS == 1022

\* registry[key] = value of each registry: the error raised, and the
\* registry afterwards.
VehicleTypesDict_setitem(reg, key, value) ==
    IF ~isinstance_int(key)
    THEN [err |-> PropertyError("KEY_STR", "INTEGER_PROPERTY"), reg |-> reg]
    ELSE IF value.cls # "VehicleType"
    THEN [err |-> PropertyError("", "VEHICLE_TYPE_PROPERTY"), reg |-> reg]
    ELSE IF ~PyEq(value.id, key)
    THEN [err |-> PropertyError("", "DICT_PROPERTY"), reg |-> reg]
    ELSE [err |-> NoError, reg |-> dict_setitem(reg, key, value)]

\* registry[key] = value of the point registry without the check of the
\* number of points.
PointsDict_setitem_uncapped(reg, key, value) ==
    IF ~isinstance_int(key)
    THEN [err |-> PropertyError("KEY_STR", "INTEGER_PROPERTY"), reg |-> reg]
    ELSE IF ~isinstance_Point(value)
    THEN [err |-> PropertyError("", "POINT_PROPERTY"), reg |-> reg]
    ELSE IF ~PyEq(value.id, key)
    THEN [err |-> PropertyError("", "DICT_PROPERTY"), reg |-> reg]
    ELSE [err |-> NoError, reg |-> dict_setitem(reg, key, value)]

PointsDict_setitem(reg, key, value) ==
    IF ~isinstance_int(key)
    THEN [err |-> PropertyError("KEY_STR", "INTEGER_PROPERTY"), reg |-> reg]
    ELSE IF ~isinstance_Point(value)
    THEN [err |-> PropertyError("", "POINT_PROPERTY"), reg |-> reg]
    ELSE IF ~PyEq(value.id, key)
    THEN [err |-> PropertyError("", "DICT_PROPERTY"), reg |-> reg]
    ELSE IF Len(reg) + 1 > MAX_POINTS
    THEN [err |-> PropertyError("NB_POINTS_STR", "LESS_MAX_POINTS_PROPERTY"),
          reg |-> reg]
    ELSE [err |-> NoError, reg |-> dict_setitem(reg, key, value)]

LinksDict_setitem(reg, key, value) ==
    IF ~isinstance_str(key)
    THEN [err |-> PropertyError("KEY_STR", "3"), reg |-> reg]
    ELSE IF value.cls # "Link"
    THEN [err |-> PropertyError("", "12"), reg |-> reg]
    ELSE IF ~PyEq(value.name, key)
    THEN [err |-> PropertyError("", "DICT_PROPERTY"), reg |-> reg]
    ELSE [err |-> NoError, reg |-> dict_setitem(reg, key, value)]

\* values(debug) of each registry: the compacted entries in insertion
\* order, or the ModelError of the empty registry.
\* values(debug) of the vehicle type registry without the check that it
\* holds a vehicle type.
VehicleTypesDict_values_unchecked(reg, debug) ==
    [err |-> NoError,
     list |-> [i \in 1..Len(reg) |-> get_vehicle_type(reg[i].value, debug)]]

VehicleTypesDict_values(reg, debug) ==
    IF Len(reg) = 0
    THEN [err |-> ModelError("MIN_VEHICLE_TYPES_ERROR"), list |-> <<>>]
    ELSE [err |-> NoError,
          list |-> [i \in 1..Len(reg) |-> get_vehicle_type(reg[i].value, debug)]]

PointsDict_values(reg, debug) ==
    IF Len(reg) = 0
    THEN [err |-> ModelError("MIN_POINTS_ERROR"), list |-> <<>>]
    ELSE [err |-> NoError,
          list |-> [i \in 1..Len(reg) |-> get_point(reg[i].value, debug)]]

LinksDict_values(reg, debug) ==
    IF Len(reg) = 0
    THEN [err |-> ModelError("MIN_LINKS_ERROR"), list |-> <<>>]
    ELSE [err |-> NoError,
          list |-> [i \in 1..Len(reg) |-> get_link(reg[i].value, debug)]]

(***************************************************************************)
(* class CreateModel: the operations on the registries. Each gives the     *)
(* error raised and the registry afterwards.                               *)
(***************************************************************************)
add_vehicle_type(reg, a) ==
    IF ~hashable(a.id) THEN [err |-> dict_contains(reg, a.id), reg |-> reg]
    ELSE IF dict_contains(reg, a.id)
    THEN [err |-> ModelError("ADD_VEHICLE_TYPE_ERROR"), reg |-> reg]
    ELSE LET made == VehicleType_init(a)
         IN IF made.err # NoError THEN [err |-> made.err, reg |-> reg]
            ELSE VehicleTypesDict_setitem(reg, a.id, made.obj)

delete_vehicle_type(reg, id) ==
    IF ~hashable(id) THEN [err |-> dict_contains(reg, id), reg |-> reg]
    ELSE IF ~dict_contains(reg, id)
    THEN [err |-> ModelError("DEL_VEHICLE_TYPE_ERROR"), reg |-> reg]
    ELSE [err |-> NoError, reg |-> dict_delitem(reg, id)]

add_link(reg, a) ==
    IF ~hashable(a.name) THEN [err |-> dict_contains(reg, a.name), reg |-> reg]
    ELSE IF dict_contains(reg, a.name)
    THEN [err |-> ModelError("ADD_LINK_ERROR"), reg |-> reg]
    ELSE LET made == Link_init(a)
         IN IF made.err # NoError THEN [err |-> made.err, reg |-> reg]
            ELSE LinksDict_setitem(reg, a.name, made.obj)

delete_Link(reg, id) ==
    IF ~hashable(id) THEN [err |-> dict_contains(reg, id), reg |-> reg]
    ELSE IF ~dict_contains(reg, id)
    THEN [err |-> ModelError("DEL_LINK_ERROR"), reg |-> reg]
    ELSE [err |-> NoError, reg |-> dict_delitem(reg, id)]

\* add_point without its check of the id: the new point takes the place of
\* the one stored under the id.
add_point_unchecked(reg, a) ==
    LET made == Point_init(a)
    IN IF made.err # NoError THEN [err |-> made.err, reg |-> reg]
       ELSE PointsDict_setitem(reg, a.id, made.obj)

add_point(reg, a) ==
    IF ~hashable(a.id) THEN [err |-> dict_contains(reg, a.id), reg |-> reg]
    ELSE IF dict_contains(reg, a.id)
    THEN [err |-> ModelError("ADD_POINT_ERROR"), reg |-> reg]
    ELSE LET made == Point_init(a)
         IN IF made.err # NoError THEN [err |-> made.err, reg |-> reg]
            ELSE PointsDict_setitem(reg, a.id, made.obj)

\* add_depot which gives the point its id as id_customer, as add_customer
\* does.
add_depot_as_customer(reg, a) ==
    IF ~hashable(a.id) THEN [err |-> dict_contains(reg, a.id), reg |-> reg]
    ELSE IF dict_contains(reg, a.id)
    THEN [err |-> ModelError("ADD_POINT_ERROR"), reg |-> reg]
    ELSE add_point(reg, [id |-> a.id, name |-> a.name, tw_begin |-> a.tw_begin,
                         tw_end |-> a.tw_end,
                         id_customer |-> a.id,
                         service_time |-> a.service_time, demand_or_capacity |-> a.capacity,
                         incompatible_vehicles |-> a.incompatible_vehicles,
                         penalty_or_cost |-> a.cost])

\* add_depot(id, name, service_time, cost, tw_begin, tw_end, capacity,
\* incompatible_vehicles)
add_depot(reg, a) ==
    IF ~hashable(a.id) THEN [err |-> dict_contains(reg, a.id), reg |-> reg]
    ELSE IF dict_contains(reg, a.id)
    THEN [err |-> ModelError("ADD_POINT_ERROR"), reg |-> reg]
    ELSE add_point(reg, [id |-> a.id, name |-> a.name, tw_begin |-> a.tw_begin,
                         tw_end |-> a.tw_end,
                         id_customer |-> PyInt(0),
                         service_time |-> a.service_time, demand_or_capacity |-> a.capacity,
                         incompatible_vehicles |-> a.incompatible_vehicles,
                         penalty_or_cost |-> a.cost])

\* add_customer which passes the id_customer on as it is given.
add_customer_as_given(reg, a) ==
    IF ~hashable(a.id) THEN [err |-> dict_contains(reg, a.id), reg |-> reg]
    ELSE IF dict_contains(reg, a.id)
    THEN [err |-> ModelError("ADD_POINT_ERROR"), reg |-> reg]
    ELSE add_point(reg, [id |-> a.id, name |-> a.name,
                         tw_begin |-> a.tw_begin,
                         tw_end |-> a.tw_end,
                         id_customer |-> a.id_customer,
                         service_time |-> a.service_time, demand_or_capacity |-> a.demand,
                         incompatible_vehicles |-> a.incompatible_vehicles,
                         penalty_or_cost |-> a.penalty])

\* add_customer(id, name, id_customer, service_time, penalty, tw_begin,
\* tw_end, demand, incompatible_vehicles): an id_customer that == 0 is
\* replaced by the id.
add_customer(reg, a) ==
    IF ~hashable(a.id) THEN [err |-> dict_contains(reg, a.id), reg |-> reg]
    ELSE IF dict_contains(reg, a.id)
    THEN [err |-> ModelError("ADD_POINT_ERROR"), reg |-> reg]
    ELSE LET id_cust == IF PyEq(a.id_customer, PyInt(0)) THEN a.id
                        ELSE a.id_customer
         IN add_point(reg, [id |-> a.id, name |-> a.name, tw_begin |-> a.tw_begin,
                            tw_end |-> a.tw_end,
                            id_customer |-> id_cust,
                            service_time |-> a.service_time, demand_or_capacity |-> a.demand,
                            incompatible_vehicles |-> a.incompatible_vehicles,
                            penalty_or_cost |-> a.penalty])

delete_customer(reg, id) ==
    IF ~hashable(id) THEN [err |-> dict_contains(reg, id), reg |-> reg]
    ELSE IF ~dict_contains(reg, id)
    THEN [err |-> ModelError("DEL_POINT_ERROR"), reg |-> reg]
    ELSE [err |-> NoError, reg |-> dict_delitem(reg, id)]

delete_depot(reg, id) == delete_customer(reg, id)

(***************************************************************************)
(* The properties of CreateModel. A value assigned is [cls, obj, from]:    *)
(* its class, its content, and the instance it is an attribute of (0 of    *)
(* none). The setters give the error raised and the attribute afterwards.  *)
(***************************************************************************)
Attributes == {"vehicle_types", "points", "links", "parameters"}

\* The class of each attribute.
ClassOf(f) ==
    CASE f = "vehicle_types" -> "VehicleTypesDict"
      [] f = "points" -> "PointsDict"
      [] f = "links" -> "LinksDict"
      [] f = "parameters" -> "Parameters"

vehicle_types_setter(old, value) ==
    IF value.cls # "VehicleTypesDict"
    THEN [err |-> PropertyError("VehicleTypes", "LIST_INTEGER_PROPERTY"),
          obj |-> old]
    ELSE [err |-> NoError, obj |-> value.obj]

points_setter(old, value) ==
    IF value.cls # "PointsDict"
    THEN [err |-> PropertyError("Points", "0"), obj |-> old]
    ELSE [err |-> NoError, obj |-> value.obj]

links_setter(old, value) ==
    IF value.cls # "LinksDict"
    THEN [err |-> PropertyError("Links", "0"), obj |-> old]
    ELSE [err |-> NoError, obj |-> value.obj]

parameters_setter(old, value) ==
    IF value.cls # "Parameters"
    THEN [err |-> PropertyError("Parameters", "0"), obj |-> old]
    ELSE [err |-> NoError, obj |-> value.obj]

\* set_parameters which updates the Parameters in place: a parameter given
\* its default keeps the value it has.
set_parameters_in_place(old, a) ==
    LET made == Parameters_init(a)
    IN IF made.err # NoError THEN [err |-> made.err, obj |-> old]
       ELSE [err |-> NoError,
             obj |-> [f \in DOMAIN made.obj |->
                         IF f \in DOMAIN a /\ a[f] = ParametersDefaults[f]
                         THEN old[f] ELSE made.obj[f]]]

\* set_parameters: the new Parameters value replaces the old one when its
\* construction raises nothing.
set_parameters(old, a) ==
    LET made == Parameters_init(a)
    IN IF made.err # NoError THEN [err |-> made.err, obj |-> old]
       ELSE [err |-> NoError, obj |-> made.obj]

(***************************************************************************)
(* Serialization. json.dumps writes a tuple as an array, at every depth,   *)
(* which json.loads reads as a list; the other values come back as they    *)
(* were written.                                                           *)
(***************************************************************************)
RECURSIVE json_value(_)
json_value(v) ==
    IF v.ty \in {"tuple", "list"}
    THEN [v EXCEPT !.ty = "list",
                   !.items = [i \in 1..Len(v.items) |-> json_value(v.items[i])]]
    ELSE v

json_dict(d) == [k \in DOMAIN d |-> json_value(d[k])]

json_list(l) == [i \in 1..Len(l) |-> json_dict(l[i])]

\* The document of no request.
NoDoc == <<>>

\* The request document: the dict set_json and export build, dumped. The
\* members are evaluated in the order points, vehicle types, links,
\* parameters, and the first empty registry raises.
request_document(vts, pts, lks, pr, debug) ==
    LET p == PointsDict_values(pts, debug)
        v == VehicleTypesDict_values(vts, debug)
        l == LinksDict_values(lks, debug)
        err == FirstError(<<p.err, v.err, l.err>>)
    IN IF err # NoError THEN [err |-> err, doc |-> NoDoc]
       ELSE [err |-> NoError,
             doc |-> <<[Points |-> json_list(p.list),
                        VehicleTypes |-> json_list(v.list),
                        Links |-> json_list(l.list),
                        Parameters |-> json_dict(get_parameters(pr, debug))]>>]

\* set_json, which __str__ returns the result of.
set_json(vts, pts, lks, pr) == request_document(vts, pts, lks, pr, FALSE)

\* export: the document written to <name>.json.
export(vts, pts, lks, pr) == request_document(vts, pts, lks, pr, TRUE)

\* json.loads of a request document.
json_loads(doc) == doc[1]

(***************************************************************************)
(* The response of the engine: Statistics, Route and Solution. A response  *)
(* text is the document it is the JSON of (no document: the empty string); *)
(* the numbers and strings of a response are plain values, the code        *)
(* copying them without a look at their type. The keys of the statistics   *)
(* and of a route are written by the name of their constant.               *)
(***************************************************************************)
\* A text that is the JSON of nothing.
NotJson == <<[garbage |-> TRUE]>>

\* json.loads of a response text raises on what is not JSON.
parses(text) == ~("garbage" \in DOMAIN text[1])

\* Statistics.__init__: without a document no attribute is set (<<>>).
Statistics_init(json_input) ==
    IF json_input = <<>> THEN <<>>
    ELSE LET d == json_input[1]
         IN <<[json_input |-> d,
               solution_time |-> d["STATISTICS.SOLUTION_TIME"],
               solution_value |-> d["STATISTICS.SOLUTION_VALUE"],
               best_lb |-> d["STATISTICS.BEST_LOWER_BOUND"],
               root_lb |-> d["STATISTICS.ROOT_LOWER_BOUND"],
               root_time |-> d["STATISTICS.ROOT_TIME"],
               nb_branch_and_bound_nodes |->
                   d["STATISTICS.NB_BRANCH_AND_BOUND_NODES"]]>>

\* The list the loop of Route.__init__ appends the key of each visit to.
Appended(visits, key) == [i \in 1..Len(visits) |-> visits[i][key]]

\* Route.__init__
Route_init_from_second(json_input) ==
    LET all == json_input["ROUTE.VISITED_POINTS"]
        visits == SubSeq(all, 2, Len(all))
    IN [route |-> json_input,
        vehicle_type_id |-> json_input["ROUTE.VEHICLE_TYPE_ID"],
        route_cost |-> json_input["ROUTE.ROUTE_COST"],
        point_ids |-> Appended(visits, "ROUTE.POINT_ID"),
        point_names |-> Appended(visits, "ROUTE.POINT_NAME"),
        cap_consumption |-> Appended(visits, "ROUTE.LOAD"),
        time_consumption |-> Appended(visits, "ROUTE.TIME"),
        incoming_arc_names |-> Appended(visits, "ROUTE.INCOMING_ARC_NAME")]

Route_init(json_input) ==
    LET visits == json_input["ROUTE.VISITED_POINTS"]
    IN [route |-> json_input,
        vehicle_type_id |-> json_input["ROUTE.VEHICLE_TYPE_ID"],
        route_cost |-> json_input["ROUTE.ROUTE_COST"],
        point_ids |-> Appended(visits, "ROUTE.POINT_ID"),
        point_names |-> Appended(visits, "ROUTE.POINT_NAME"),
        cap_consumption |-> Appended(visits, "ROUTE.LOAD"),
        time_consumption |-> Appended(visits, "ROUTE.TIME"),
        incoming_arc_names |-> Appended(visits, "ROUTE.INCOMING_ARC_NAME")]

\* The status of which the statistics are read.
solved_from_two(status) == status > 1 /\ status < 6

solved(status) == status > 2 /\ status < 6

\* The status of which the routes are read.
with_routes_when_solved(status) == solved(status)

with_routes(status) == solved(status) \/ status = 8

\* Solution.__init__ without a response.
Solution_default ==
    [status |-> 0, json |-> <<>>, routes |-> <<>>,
     statistics |-> Statistics_init(<<>>), message |-> ""]

\* Solution.__init__: the members of the document are read by subscript,
\* and one that is missing raises.
Solution_init_unread(json_input) ==
    [err |-> NoError, obj |-> Solution_default]

Solution_init(json_input) ==
    IF json_input = <<>> THEN [err |-> NoError, obj |-> Solution_default]
    ELSE IF ~parses(json_input)
    THEN [err |-> Raised("ValueError"), obj |-> Solution_default]
    ELSE LET doc == json_input[1]
             status == doc.Status.code
         IN IF \/ solved(status) /\ ~("Statistics" \in DOMAIN doc)
               \/ with_routes(status) /\ ~("Solution" \in DOMAIN doc)
            THEN [err |-> Raised("KeyError"), obj |-> Solution_default]
            ELSE [err |-> NoError,
                  obj |-> [status |-> status,
                           json |-> <<doc>>,
                           routes |-> IF with_routes(status)
                                      THEN [i \in 1..Len(doc.Solution) |->
                                                Route_init(doc.Solution[i])]
                                      ELSE <<>>,
                           statistics |-> IF solved(status)
                                          THEN Statistics_init(<<doc.Statistics>>)
                                          ELSE Statistics_init(<<>>),
                           message |-> doc.Status.message]]

(***************************************************************************)
(* The state: the registries and the parameters of one CreateModel, the    *)
(* outcome of the last call (result), and the last entity constructed on   *)
(* its own (entity).                                                       *)
(***************************************************************************)
\* The outcome of a call: the operation, the exception raised, the key and
\* the id_customer argument it was given (idc is empty when none was), the
\* own id or name of the value it was given (val), and the document it
\* returned or wrote (ret).
Outcome(op, err, key, idc, val, ret) ==
    [key |-> key, err |-> err, op |-> op, idc |-> idc, val |-> val, ret |-> ret]

NoEntity ==
    [err |-> NoError, obj |-> <<>>, debug |-> FALSE, kind |-> "none",
     args |-> <<>>, out |-> <<>>]

\* The library path of the process (os.environ[PATH_SYSTEM[...]]): not set,
\* or the one string it is.
NoPath == <<>>

\* A CreateModel just constructed.
NewModel ==
    [vehicle_types |-> <<>>, points |-> <<>>, links |-> <<>>,
     parameters |-> Parameters_init(ParametersDefaults).obj]

\* The default of incompatible_vehicles in add_point is one list, made
\* when the function is defined: its items, and the points that hold it
\* (the instance and the key of each); and the attributes of which the two
\* CreateModel have one object.
NoHolder == [items |-> <<>>, held |-> {}, same |-> {}]

\* CreateModel.__init__, in a process without a library path.
Init ==
    /\ vehicle_types = <<>>
    /\ points = <<>>
    /\ links = <<>>
    /\ parameters = Parameters_init(ParametersDefaults).obj
    /\ result = Outcome("init", NoError, PyInt(0), <<>>, PyInt(0), NoDoc)
    /\ entity = NoEntity
    /\ solution = Solution_default
    /\ environ = NoPath
    /\ other = NewModel
    /\ shared = NoHolder

Entries(vts, pts, lks) == Len(vts) + Len(pts) + Len(lks)

\* The explored models hold at most MaxEntries entries.
Fits(vts, pts, lks) == Entries(vts, pts, lks) <= MaxEntries

(***************************************************************************)
(* The defaults of add_vehicle_type, add_point, add_depot, add_customer    *)
(* for their optional arguments (add_link has those of Link.__init__,      *)
(* set_parameters those of Parameters.__init__).                           *)
(***************************************************************************)
AddVehicleTypeDefaults ==
    [name |-> PyStr(""), capacity |-> PyInt(0), fixed_cost |-> PyFloat(0),
     var_cost_dist |-> PyFloat(0), var_cost_time |-> PyFloat(0),
     max_number |-> PyInt(1), tw_begin |-> PyFloat(0), tw_end |-> PyFloat(0)]

AddPointDefaults ==
    [name |-> PyStr(""), tw_begin |-> PyFloat(0), tw_end |-> PyFloat(0),
     id_customer |-> PyInt(0), service_time |-> PyFloat(0),
     demand_or_capacity |-> PyInt(0), incompatible_vehicles |-> PyList(<<>>),
     penalty_or_cost |-> PyFloat(0)]

AddDepotDefaults ==
    [name |-> PyStr(""), capacity |-> PyInt(0), tw_begin |-> PyFloat(0),
     tw_end |-> PyFloat(0), cost |-> PyFloat(0), service_time |-> PyFloat(0),
     incompatible_vehicles |-> PyList(<<>>)]

AddCustomerDefaults ==
    [name |-> PyStr(""), tw_begin |-> PyFloat(0), tw_end |-> PyFloat(0),
     id_customer |-> PyInt(0), penalty |-> PyFloat(0), service_time |-> PyFloat(0),
     demand |-> PyInt(0), incompatible_vehicles |-> PyList(<<>>)]

\* r with the fields of the record d it lacks.
WithDefaults(r, d) ==
    [k \in DOMAIN r \cup DOMAIN d |-> IF k \in DOMAIN r THEN r[k] ELSE d[k]]

\* The argument an optional one stands for (none given: the default).
ArgOr(opt, default) == IF opt = <<>> THEN default ELSE opt[1]

(***************************************************************************)
(* The calls on a CreateModel, each for the arguments of the given sets.   *)
(***************************************************************************)
AddVehicleType(args) ==
    \E a \in args :
        LET r == add_vehicle_type(vehicle_types, a)
        IN /\ Fits(r.reg, points, links)
           /\ vehicle_types' = r.reg
           /\ result' = Outcome("add_vehicle_type", r.err, a.id, <<>>, a.id, NoDoc)
           /\ UNCHANGED <<points, links, parameters, entity, unread>>

DeleteVehicleType(ids) ==
    \E id \in ids :
        LET r == delete_vehicle_type(vehicle_types, id)
        IN /\ vehicle_types' = r.reg
           /\ result' = Outcome("delete_vehicle_type", r.err, id, <<>>, id, NoDoc)
           /\ UNCHANGED <<points, links, parameters, entity, unread>>

AddLink(args) ==
    \E a \in args :
        LET r == add_link(links, a)
        IN /\ Fits(vehicle_types, points, r.reg)
           /\ links' = r.reg
           /\ result' = Outcome("add_link", r.err, a.name, <<>>, a.name, NoDoc)
           /\ UNCHANGED <<vehicle_types, points, parameters, entity, unread>>

DeleteLink(names) ==
    \E id \in names :
        LET r == delete_Link(links, id)
        IN /\ links' = r.reg
           /\ result' = Outcome("delete_Link", r.err, id, <<>>, id, NoDoc)
           /\ UNCHANGED <<vehicle_types, points, parameters, entity, unread>>

AddPoint(ids, idcs) ==
    \E id \in ids, c \in idcs :
        LET a == WithDefaults([id |-> id,
                               id_customer |-> ArgOr(c, AddPointDefaults.id_customer)],
                              AddPointDefaults)
            r == add_point(points, a)
        IN /\ Fits(vehicle_types, r.reg, links)
           /\ points' = r.reg
           /\ result' = Outcome("add_point", r.err, id, c, id, NoDoc)
           /\ UNCHANGED <<vehicle_types, links, parameters, entity, unread>>

AddDepot(ids) ==
    \E id \in ids :
        LET r == add_depot(points, WithDefaults([id |-> id], AddDepotDefaults))
        IN /\ Fits(vehicle_types, r.reg, links)
           /\ points' = r.reg
           /\ result' = Outcome("add_depot", r.err, id, <<>>, id, NoDoc)
           /\ UNCHANGED <<vehicle_types, links, parameters, entity, unread>>

AddCustomer(ids, idcs) ==
    \E id \in ids, c \in idcs :
        LET a == WithDefaults([id |-> id,
                               id_customer |-> ArgOr(c, AddCustomerDefaults.id_customer)],
                              AddCustomerDefaults)
            r == add_customer(points, a)
        IN /\ Fits(vehicle_types, r.reg, links)
           /\ points' = r.reg
           /\ result' = Outcome("add_customer", r.err, id, c, id, NoDoc)
           /\ UNCHANGED <<vehicle_types, links, parameters, entity, unread>>

DeleteCustomer(ids) ==
    \E id \in ids :
        LET r == delete_customer(points, id)
        IN /\ points' = r.reg
           /\ result' = Outcome("delete_customer", r.err, id, <<>>, id, NoDoc)
           /\ UNCHANGED <<vehicle_types, links, parameters, entity, unread>>

DeleteDepot(ids) ==
    \E id \in ids :
        LET r == delete_depot(points, id)
        IN /\ points' = r.reg
           /\ result' = Outcome("delete_depot", r.err, id, <<>>, id, NoDoc)
           /\ UNCHANGED <<vehicle_types, links, parameters, entity, unread>>

SetParameters(args) ==
    \E a \in args :
        LET r == set_parameters(parameters, a)
        IN /\ parameters' = r.obj
           /\ result' = Outcome("set_parameters", r.err, PyInt(0), <<>>, PyInt(0), NoDoc)
           /\ UNCHANGED <<vehicle_types, points, links, entity, unread>>

\* str(model)
Str ==
    LET r == set_json(vehicle_types, points, links, parameters)
    IN /\ result' = Outcome("str", r.err, PyInt(0), <<>>, PyInt(0), r.doc)
       /\ UNCHANGED <<vehicle_types, points, links, parameters, entity, unread>>

\* model.export(name)
Export ==
    LET r == export(vehicle_types, points, links, parameters)
    IN /\ result' = Outcome("export", r.err, PyInt(0), <<>>, PyInt(0), r.doc)
       /\ UNCHANGED <<vehicle_types, points, links, parameters, entity, unread>>

(***************************************************************************)
(* The caller's direct use of the registries and of the stored entities:   *)
(* model.points[key] = value, and model.points[key].id = id.               *)
(***************************************************************************)
\* The own key of a value: its name for a Link, its id otherwise.
OwnKey(value) == IF value.cls = "Link" THEN value.name ELSE value.id

VehicleTypesSetItem(keys, values) ==
    \E key \in keys, value \in values :
        LET r == VehicleTypesDict_setitem(vehicle_types, key, value)
        IN /\ Fits(r.reg, points, links)
           /\ vehicle_types' = r.reg
           /\ result' = Outcome("vehicle_types.setitem", r.err, key, <<>>,
                                OwnKey(value), NoDoc)
           /\ UNCHANGED <<points, links, parameters, entity, unread>>

PointsSetItem(keys, values) ==
    \E key \in keys, value \in values :
        LET r == PointsDict_setitem(points, key, value)
        IN /\ Fits(vehicle_types, r.reg, links)
           /\ points' = r.reg
           /\ result' = Outcome("points.setitem", r.err, key, <<>>,
                                OwnKey(value), NoDoc)
           /\ UNCHANGED <<vehicle_types, links, parameters, entity, unread>>

LinksSetItem(keys, values) ==
    \E key \in keys, value \in values :
        LET r == LinksDict_setitem(links, key, value)
        IN /\ Fits(vehicle_types, points, r.reg)
           /\ links' = r.reg
           /\ result' = Outcome("links.setitem", r.err, key, <<>>,
                                OwnKey(value), NoDoc)
           /\ UNCHANGED <<vehicle_types, points, parameters, entity, unread>>

\* model.vehicle_types[key].id = id
AssignVehicleTypeId(ids) ==
    \E i \in 1..Len(vehicle_types), id \in ids :
        LET err == VehicleType_id(id)
        IN /\ vehicle_types' = IF err = NoError
                               THEN [vehicle_types EXCEPT ![i].value.id = id]
                               ELSE vehicle_types
           /\ result' = Outcome("vehicle_type.id", err, vehicle_types[i].key,
                                <<>>, id, NoDoc)
           /\ UNCHANGED <<points, links, parameters, entity, unread>>

\* model.points[key].id = id
AssignPointId(ids) ==
    \E i \in 1..Len(points), id \in ids :
        LET err == Point_id(id)
        IN /\ points' = IF err = NoError
                        THEN [points EXCEPT ![i].value.id = id]
                        ELSE points
           /\ result' = Outcome("point.id", err, points[i].key, <<>>, id, NoDoc)
           /\ UNCHANGED <<vehicle_types, links, parameters, entity, unread>>

\* model.links[key].name = name
AssignLinkName(names) ==
    \E i \in 1..Len(links), name \in names :
        LET err == Link_name(name)
        IN /\ links' = IF err = NoError
                       THEN [links EXCEPT ![i].value.name = name]
                       ELSE links
           /\ result' = Outcome("link.name", err, links[i].key, <<>>, name, NoDoc)
           /\ UNCHANGED <<vehicle_types, points, parameters, entity, unread>>

(***************************************************************************)
(* The attributes of a CreateModel assigned to. The process has a second   *)
(* CreateModel, other, and an attribute of the one can be the object that  *)
(* is the attribute of the other: shared.same has the attributes of which  *)
(* the two instances have one object.                                      *)
(***************************************************************************)
\* The outcome of a call on the instance i.
On(i, op, err, key) == [on |-> i] @@ Outcome(op, err, key, <<>>, key, NoDoc)

\* The attribute f of instance i.
Attr(i, f) ==
    IF i = 2 THEN other[f]
    ELSE CASE f = "vehicle_types" -> vehicle_types
           [] f = "points" -> points
           [] f = "links" -> links
           [] f = "parameters" -> parameters

PointsOf(i) == Attr(i, "points")

\* The attribute f afterwards: v1 in instance 1, v2 in instance 2.
Bound(f, v1, v2) ==
    /\ vehicle_types' = IF f = "vehicle_types" THEN v1 ELSE vehicle_types
    /\ points' = IF f = "points" THEN v1 ELSE points
    /\ links' = IF f = "links" THEN v1 ELSE links
    /\ parameters' = IF f = "parameters" THEN v1 ELSE parameters
    /\ other' = [other EXCEPT ![f] = v2]

\* The object that is the attribute f of instance i has changed to v:
\* the other instance sees the change when its attribute is that object.
Mutated(i, f, v) ==
    Bound(f, IF i = 1 \/ f \in shared.same THEN v ELSE Attr(1, f),
             IF i = 2 \/ f \in shared.same THEN v ELSE Attr(2, f))

\* The attribute f of instance i is another object, v.
Rebound(i, f, v) ==
    Bound(f, IF i = 1 THEN v ELSE Attr(1, f), IF i = 2 THEN v ELSE Attr(2, f))

\* The instances that hold the point id of the registry of instance i.
Holders(i, id) ==
    {<<i, id>>} \cup (IF "points" \in shared.same THEN {<<3 - i, id>>} ELSE {})

\* What is assigned to the attribute f of instance i: a new object of its
\* class (from 0), the object the other instance has (from that
\* instance), and a plain dict.
Assigned(i, f, froms) ==
    {v \in {[obj |-> NewModel[f], cls |-> ClassOf(f), from |-> 0],
            [obj |-> Attr(3 - i, f), cls |-> ClassOf(f), from |-> 3 - i],
            [obj |-> <<>>, cls |-> "dict", from |-> 0]} : v.from \in froms}

\* m.vehicle_types = value, m.points = value, m.links = value and
\* m.parameters = value: the attribute is the value assigned, the object
\* it was is left as it is.
SetAttribute(i, f, froms) ==
    \E value \in Assigned(i, f, froms) :
        LET r == CASE f = "vehicle_types" -> vehicle_types_setter(Attr(i, f), value)
                   [] f = "points" -> points_setter(Attr(i, f), value)
                   [] f = "links" -> links_setter(Attr(i, f), value)
                   [] f = "parameters" -> parameters_setter(Attr(i, f), value)
            gone == {h \in shared.held : f = "points" /\ h[1] = i}
            come == IF value.from = 0 THEN {}
                    ELSE {<<i, h[2]>> : h \in {g \in shared.held :
                                                  f = "points" /\ g[1] = 3 - i}}
        IN /\ Rebound(i, f, r.obj)
           /\ shared' = IF r.err # NoError THEN shared
                        ELSE [items |-> shared.items,
                              held |-> (shared.held \ gone) \cup come,
                              same |-> IF value.from = 0 THEN shared.same \ {f}
                                       ELSE shared.same \cup {f}]
           /\ result' = On(i, f, r.err, PyStr(value.cls))
           /\ UNCHANGED <<entity, solution, environ>>

(***************************************************************************)
(* Spec: a model built and serialized through the operations of            *)
(* CreateModel.                                                            *)
(***************************************************************************)
VehicleTypeArgs ==
    {WithDefaults([id |-> i, max_number |-> m,
                   start_point_id |-> PyInt(0), end_point_id |-> PyInt(0)],
                  AddVehicleTypeDefaults) :
        i \in {PyInt(1), PyInt(2)}, m \in {PyInt(1), PyInt(0)}}

PointIds == {PyInt(1), PyInt(2)}

\* The id_customer a call is given: none, or 5.
OptIdCustomers == {<<>>, <<PyInt(5)>>}

LinkNames == {PyStr("L0"), PyStr("L1")}

\* A distance of -1 is rejected by the Link.
LinkArgs ==
    {WithDefaults([name |-> n, distance |-> d], LinkDefaults) :
        n \in LinkNames, d \in {PyFloat(0), PyInt(7), PyInt(-1)}}

\* A time_limit of -5 is rejected by the Parameters.
ParametersArgs ==
    {ParametersDefaults,
     [ParametersDefaults EXCEPT !.cplex_path = PyStr("/opt/cplex")],
     [ParametersDefaults EXCEPT !.time_limit = PyInt(-5)]}

Next ==
    \/ AddVehicleType(VehicleTypeArgs)
    \/ DeleteVehicleType({PyInt(1), PyInt(2)})
    \/ AddLink(LinkArgs)
    \/ DeleteLink(LinkNames)
    \/ AddPoint(PointIds, OptIdCustomers)
    \/ AddDepot(PointIds)
    \/ AddCustomer(PointIds, OptIdCustomers)
    \/ DeleteCustomer(PointIds)
    \/ DeleteDepot(PointIds)
    \/ SetParameters(ParametersArgs)
    \/ Str
    \/ Export

Spec == Init /\ [][Next]_vars

(***************************************************************************)
(* SpecCustomer: points added at the edges of the id and id_customer       *)
(* ranges.                                                                 *)
(***************************************************************************)
\* 1022 is the largest id_customer, 1023 a valid id just above it, 10001 no
\* valid id.
EdgePointIds == {PyInt(0), PyInt(1022), PyInt(1023), PyInt(10001)}

EdgeOptIdCustomers ==
    {<<>>, <<PyInt(0)>>, <<PyInt(2)>>, <<PyInt(1022)>>, <<PyInt(1023)>>, <<PyInt(-1)>>}

\* An id without a hash: the list [1].
ListId == PyList(<<PyInt(1)>>)

NextCustomer ==
    \/ AddCustomer(EdgePointIds \cup {ListId}, EdgeOptIdCustomers)
    \/ AddPoint(EdgePointIds \cup {ListId}, {<<>>, <<PyInt(2)>>})
    \/ AddDepot(EdgePointIds)
    \/ DeleteCustomer(EdgePointIds \cup {ListId})

SpecCustomer == Init /\ [][NextCustomer]_vars

(***************************************************************************)
(* SpecDirect: the registries written and the stored entities assigned to  *)
(* directly, beside the add and delete operations.                         *)
(***************************************************************************)
\* Values of another class than the registry's.
ALink == Link_init(LinkDefaults).obj

AVehicleType ==
    VehicleType_init(WithDefaults([id |-> PyInt(1), start_point_id |-> PyInt(0),
                                   end_point_id |-> PyInt(0)],
                                  VehicleTypeDefaults)).obj

\* The vehicle types, points and links the caller constructs to insert.
VehicleTypeValues ==
    {VehicleType_init(WithDefaults([id |-> i, start_point_id |-> PyInt(0),
                                    end_point_id |-> PyInt(0)],
                                   VehicleTypeDefaults)).obj :
        i \in {PyInt(1), PyInt(2)}}

PointValues ==
    {Point_init(WithDefaults([id |-> PyInt(1)], PointDefaults)).obj,
     Point_init(WithDefaults([id |-> PyInt(1), name |-> PyStr("b")],
                             PointDefaults)).obj,
     Point_init(WithDefaults([id |-> PyInt(2)], PointDefaults)).obj}

LinkValues ==
    {Link_init(WithDefaults([name |-> n], LinkDefaults)).obj : n \in LinkNames}

NextDirect ==
    \/ VehicleTypesSetItem({PyInt(1), PyInt(2), PyStr("1")},
                           VehicleTypeValues \cup {ALink})
    \/ PointsSetItem({PyInt(1), PyInt(2), PyStr("1")}, PointValues \cup {ALink})
    \/ LinksSetItem(LinkNames \cup {PyInt(1)}, LinkValues \cup {AVehicleType})
    \/ AssignVehicleTypeId({PyInt(0), PyInt(1), PyInt(2)})
    \/ AssignPointId({PyInt(1), PyInt(2), PyInt(10001)})
    \/ AssignLinkName(LinkNames \cup {PyInt(1)})
    \/ AddVehicleType({WithDefaults([id |-> PyInt(1), start_point_id |-> PyInt(0),
                                     end_point_id |-> PyInt(0)],
                                    AddVehicleTypeDefaults)})
    \/ DeleteVehicleType({PyInt(1)})
    \/ AddPoint({PyInt(1)}, {<<>>})
    \/ DeleteCustomer({PyInt(1)})
    \/ AddLink({WithDefaults([name |-> PyStr("L0")], LinkDefaults)})
    \/ DeleteLink({PyStr("L0")})
    \/ \E f \in Attributes : SetAttribute(1, f, {0})

SpecDirect == Init /\ [][NextDirect]_vars

(***************************************************************************)
(* SpecCap: the point registry filled to its capacity. The points get the  *)
(* ids 0, 1, 2, ... in turn, and the last one added is the one deleted.    *)
(***************************************************************************)
\* add_point(id) of the next id or of the id 0.
AddNextPoint ==
    \E id \in {PyInt(Len(points)), PyInt(0)} :
        LET r == add_point(points, WithDefaults([id |-> id], AddPointDefaults))
        IN /\ points' = r.reg
           /\ result' = Outcome("add_point", r.err, id, <<>>, id, NoDoc)
           /\ UNCHANGED <<vehicle_types, links, parameters, entity, unread>>

\* points[key] = Point(key), of the next id or of the id 0.
InsertPoint ==
    \E key \in {PyInt(Len(points)), PyInt(0)} :
        LET value == Point_init(WithDefaults([id |-> key], AddPointDefaults)).obj
            r == PointsDict_setitem(points, key, value)
        IN /\ points' = r.reg
           /\ result' = Outcome("points.setitem", r.err, key, <<>>, key, NoDoc)
           /\ UNCHANGED <<vehicle_types, links, parameters, entity, unread>>

\* delete_customer(id) of the last id added.
DeleteLastPoint ==
    /\ Len(points) > 0
    /\ LET id == PyInt(Len(points) - 1)
           r == delete_customer(points, id)
       IN /\ points' = r.reg
          /\ result' = Outcome("delete_customer", r.err, id, <<>>, id, NoDoc)
          /\ UNCHANGED <<vehicle_types, links, parameters, entity, unread>>

NextCap == AddNextPoint \/ InsertPoint \/ DeleteLastPoint

SpecCap == Init /\ [][NextCap]_vars

(***************************************************************************)
(* SpecEntity: one entity constructed on its own from every combination of *)
(* a default and a non-default value of its fields, then compacted with    *)
(* and without the debug flag.                                             *)
(***************************************************************************)
\* The defaults of Customer.__init__ and Depot.__init__.
CustomerDefaults ==
    [name |-> PyStr(""), tw_begin |-> PyInt(0), tw_end |-> PyInt(0),
     id_customer |-> PyInt(0), penalty |-> PyFloat(0), service_time |-> PyInt(0),
     demand |-> PyInt(0), incompatible_vehicles |-> PyList(<<>>)]

DepotDefaults ==
    [name |-> PyStr(""), capacity |-> PyInt(0), tw_begin |-> PyInt(0),
     tw_end |-> PyInt(0), cost |-> PyInt(0), service_time |-> PyInt(0),
     incompatible_vehicles |-> PyList(<<>>)]

\* For each optional field, its default and one other valid value.
VehicleTypeChoices ==
    [id : {PyInt(1)}, name : {PyStr(""), PyStr("v")},
     capacity : {PyInt(0), PyInt(5)}, fixed_cost : {PyFloat(0), PyInt(3)},
     var_cost_dist : {PyFloat(0), PyInt(1)}, var_cost_time : {PyFloat(0), PyInt(2)},
     max_number : {PyInt(1), PyInt(0)},
     start_point_id : {PyInt(0)}, end_point_id : {PyInt(0)},
     tw_begin : {PyInt(0), PyInt(4)}, tw_end : {PyInt(0), PyInt(9)}]

PointChoices ==
    [id : {PyInt(3)}, name : {PyStr(""), PyStr("p")},
     tw_begin : {PyInt(0), PyInt(4)}, tw_end : {PyInt(0), PyInt(9)},
     id_customer : {PyInt(0), PyInt(7)},
     service_time : {PyInt(0), PyInt(2)}, demand_or_capacity : {PyInt(0), PyInt(8)},
     incompatible_vehicles : {PyList(<<>>), PyList(<<PyInt(1)>>)},
     penalty_or_cost : {PyFloat(0), PyInt(6)}]

CustomerChoices ==
    [id : {PyInt(3)}, name : {PyStr(""), PyStr("p")},
     tw_begin : {PyInt(0), PyInt(4)}, tw_end : {PyInt(0), PyInt(9)},
     id_customer : {PyInt(0), PyInt(7)},
     penalty : {PyFloat(0), PyInt(6)}, service_time : {PyInt(0), PyInt(2)},
     demand : {PyInt(0), PyInt(8)},
     incompatible_vehicles : {PyList(<<>>), PyList(<<PyInt(1)>>)}]

DepotChoices ==
    [id : {PyInt(0), PyInt(3)}, name : {PyStr(""), PyStr("d")},
     capacity : {PyInt(0), PyInt(8)}, tw_begin : {PyInt(0), PyInt(4)},
     tw_end : {PyInt(0), PyInt(9)}, cost : {PyInt(0), PyInt(6)},
     service_time : {PyInt(0), PyInt(2)},
     incompatible_vehicles : {PyList(<<>>), PyList(<<PyInt(1)>>)}]

LinkChoices ==
    [name : {PyStr(""), PyStr("L0")}, fixed_cost : {PyFloat(0), PyInt(5)},
     start_point_id : {PyInt(0), PyInt(1)}, end_point_id : {PyInt(0), PyInt(2)},
     is_directed : {PyBool(FALSE), PyBool(TRUE)}, distance : {PyFloat(0), PyInt(7)},
     time : {PyFloat(0), PyInt(3)}]

ParametersChoices ==
    [time_limit : {PyInt(300), PyInt(60)},
     upper_bound : {PyInt(1000000), PyInt(950)},
     heuristic_used : {PyBool(FALSE), PyBool(TRUE)},
     time_limit_heuristic : {PyInt(20), PyInt(10)},
     config_file : {PyStr(""), PyStr("cfg")},
     solver_name : {PyStr("CLP"), PyStr("CPLEX")},
     print_level : {PyInt(-1), PyInt(0)},
     action : {PyStr("solve"), PyStr("enumAllFeasibleRoutes")},
     cplex_path : {PyStr(""), PyStr("/opt/cplex")}]

\* The entity a constructor call leaves: the arguments, the error raised
\* and, when none was, the object.
Made(kind, a, made) ==
    [err |-> made.err, obj |-> IF made.err = NoError THEN <<made.obj>> ELSE <<>>, debug |-> FALSE,
     kind |-> kind,
     args |-> a, out |-> <<>>]

NewVehicleType ==
    /\ entity = NoEntity
    /\ \E a \in VehicleTypeChoices :
           entity' = Made("VehicleType", a, VehicleType_init(a))
    /\ UNCHANGED <<vehicle_types, points, links, parameters, result, unread>>

NewPoint ==
    /\ entity = NoEntity
    /\ \E a \in PointChoices : entity' = Made("Point", a, Point_init(a))
    /\ UNCHANGED <<vehicle_types, points, links, parameters, result, unread>>

NewCustomer ==
    /\ entity = NoEntity
    /\ \E a \in CustomerChoices : entity' = Made("Customer", a, Customer_init(a))
    /\ UNCHANGED <<vehicle_types, points, links, parameters, result, unread>>

NewDepot ==
    /\ entity = NoEntity
    /\ \E a \in DepotChoices : entity' = Made("Depot", a, Depot_init(a))
    /\ UNCHANGED <<vehicle_types, points, links, parameters, result, unread>>

NewLink ==
    /\ entity = NoEntity
    /\ \E a \in LinkChoices : entity' = Made("Link", a, Link_init(a))
    /\ UNCHANGED <<vehicle_types, points, links, parameters, result, unread>>

NewParameters ==
    /\ entity = NoEntity
    /\ \E a \in ParametersChoices :
           entity' = Made("Parameters", a, Parameters_init(a))
    /\ UNCHANGED <<vehicle_types, points, links, parameters, result, unread>>

\* The compacted accessor of an object of each class.
get_entity(obj, debug) ==
    IF obj.cls = "VehicleType" THEN get_vehicle_type(obj, debug)
    ELSE IF obj.cls = "Link" THEN get_link(obj, debug)
    ELSE IF obj.cls = "Parameters" THEN get_parameters(obj, debug)
    ELSE get_point(obj, debug)

\* entity.get_...(debug)
GetEntity ==
    /\ entity.obj # <<>>
    /\ entity.out = <<>>
    /\ \E debug \in BOOLEAN :
           entity' = [entity EXCEPT !.debug = debug,
                                    !.out = <<get_entity(entity.obj[1], debug)>>]
    /\ UNCHANGED <<vehicle_types, points, links, parameters, result, unread>>

NextEntity ==
    \/ NewVehicleType \/ NewPoint \/ NewCustomer \/ NewDepot \/ NewLink
    \/ NewParameters \/ GetEntity

SpecEntity == Init /\ [][NextEntity]_vars

(***************************************************************************)
(* Properties.                                                             *)
(***************************************************************************)
\* Every entry of the registry is stored under the own key of its value.
KeysMatch(reg) ==
    \A i \in 1..Len(reg) : PyEq(reg[i].key, OwnKey(reg[i].value))

\* C1: in every state reached by add and delete operations, registry
\* insertions and assignments to the fields of stored entities, each entry
\* of the three registries is stored under a key equal to the id (vehicle
\* type, point) or the name (link) of its entity.
C1_KeyEqualsOwnKey ==
    KeysMatch(vehicle_types) /\ KeysMatch(points) /\ KeysMatch(links)

AddOps == {"add_vehicle_type", "add_point", "add_customer", "add_depot", "add_link"}

DeleteOps == {"delete_vehicle_type", "delete_customer", "delete_depot", "delete_Link"}

\* The registry an operation works on, of the three given.
RegistryOf(op, vts, pts, lks) ==
    IF op \in {"add_vehicle_type", "delete_vehicle_type", "vehicle_types.setitem",
               "vehicle_type.id"}
    THEN vts
    ELSE IF op \in {"add_link", "delete_Link", "links.setitem", "link.name"}
    THEN lks
    ELSE pts

\* C2: an add operation called with an id or name the registry holds, and
\* a delete operation called with a key the registry does not hold, raise
\* ModelError and leave the three registries as they were.
C2_KeyPresencePrecondition ==
    [][LET op == result'.op
           had == dict_contains(RegistryOf(op, vehicle_types, points, links),
                                result'.key)
       IN ((op \in AddOps /\ had) \/ (op \in DeleteOps /\ ~had))
          => /\ result'.err.type = "ModelError"
             /\ vehicle_types' = vehicle_types
             /\ points' = points
             /\ links' = links]_vars

\* C2 witness: add_customer was called with an id the point registry
\* holds and raised the ModelError of a present point.
C2_Witness ==
    /\ result.op = "add_customer"
    /\ dict_contains(points, result.key)
    /\ result.err = ModelError("ADD_POINT_ERROR")
    /\ Len(points) = 2

SetItemOps == {"vehicle_types.setitem", "points.setitem", "links.setitem"}

\* C3: inserting a value into a registry under a key that is present
\* fails, and inserting a value whose own id or name differs from the
\* insertion key fails.
C3_InsertionKeySafe ==
    [][LET op == result'.op
           had == dict_contains(RegistryOf(op, vehicle_types, points, links),
                                result'.key)
       IN (op \in SetItemOps /\ (had \/ ~PyEq(result'.key, result'.val)))
          => result'.err # NoError]_vars

\* The error of the first point insertion over the capacity.
TooManyPoints == PropertyError("NB_POINTS_STR", "LESS_MAX_POINTS_PROPERTY")

\* C4: the point registry never holds more than 1022 entries: the
\* insertion of a new key into a registry of 1022 entries raises the
\* validation error of the number of points and leaves the registry as it
\* was, and the insertion of a new key into a smaller registry succeeds
\* and adds one entry.
C4_PointCapacity ==
    [][/\ Len(points') <= MAX_POINTS
       /\ (/\ result'.op \in {"add_point", "points.setitem"}
           /\ ~dict_contains(points, result'.key))
          => IF Len(points) >= MAX_POINTS
             THEN result'.err = TooManyPoints /\ points' = points
             ELSE /\ result'.err = NoError
                  /\ Len(points') = Len(points) + 1
                  /\ dict_contains(points', result'.key)]_vars

\* C4 witness: add_point of a new id was refused by a registry of 1022
\* points.
C4_Witness ==
    /\ Len(points) = MAX_POINTS
    /\ result.op = "add_point"
    /\ ~dict_contains(points, result.key)
    /\ result.err = TooManyPoints

\* The ModelError of the first empty registry in the order of
\* serialization, NoError when none is empty.
EmptyRegistryError(vts, pts, lks) ==
    IF Len(pts) = 0 THEN ModelError("MIN_POINTS_ERROR")
    ELSE IF Len(vts) = 0 THEN ModelError("MIN_VEHICLE_TYPES_ERROR")
    ELSE IF Len(lks) = 0 THEN ModelError("MIN_LINKS_ERROR")
    ELSE NoError

\* C5: str(model) and export raise the ModelError of the empty registry
\* when the model has no point, no vehicle type or no link, and give a
\* document when each registry holds an entry; the delete of a present key
\* succeeds, also when it leaves the registry empty, and no add or delete
\* raises the error of an empty registry.
C5_EmptinessAtSerialization ==
    [][LET op == result'.op
           reg == RegistryOf(op, vehicle_types, points, links)
           regAfter == RegistryOf(op, vehicle_types', points', links')
       IN /\ op \in {"str", "export"}
             => /\ result'.err = EmptyRegistryError(vehicle_types, points, links)
                /\ (result'.ret # NoDoc) <=> (result'.err = NoError)
          /\ (op \in DeleteOps /\ dict_contains(reg, result'.key))
             => /\ result'.err = NoError
                /\ Len(regAfter) = Len(reg) - 1
          /\ op \in AddOps \cup DeleteOps
             => result'.err.code \notin {"MIN_POINTS_ERROR",
                                         "MIN_VEHICLE_TYPES_ERROR",
                                         "MIN_LINKS_ERROR"}]_vars

\* C5 witness: str(model) of a model with a point, a link and no vehicle
\* type raised the error of no vehicle type.
C5_Witness ==
    /\ result.op = "str"
    /\ Len(points) > 0 /\ Len(links) > 0 /\ Len(vehicle_types) = 0
    /\ result.err = ModelError("MIN_VEHICLE_TYPES_ERROR")

\* The wire field of each optional field of an entity.
VehicleTypeWire ==
    [name |-> "VEHICLE_TYPE.NAME", capacity |-> "VEHICLE_TYPE.CAPACITY",
     fixed_cost |-> "VEHICLE_TYPE.FIXED_COST",
     var_cost_dist |-> "VEHICLE_TYPE.VAR_COST_DIST",
     var_cost_time |-> "VEHICLE_TYPE.VAR_COST_TIME",
     max_number |-> "VEHICLE_TYPE.MAX_NUMBER",
     tw_begin |-> "VEHICLE_TYPE.TIME_WINDOWS_BEGIN",
     tw_end |-> "VEHICLE_TYPE.TIME_WINDOWS_END"]

PointWire ==
    [name |-> "POINT.NAME", tw_begin |-> "POINT.TIME_WINDOWS_BEGIN",
     tw_end |-> "POINT.TIME_WINDOWS_END",
     id_customer |-> "POINT.ID_CUSTOMER", service_time |-> "POINT.SERVICE_TIME",
     demand_or_capacity |-> "POINT.DEMAND_OR_CAPACITY",
     incompatible_vehicles |-> "POINT.INCOMPATIBLE_VEHICLES",
     penalty_or_cost |-> "POINT.PENALTY_OR_COST"]

LinkWire ==
    [name |-> "LINK.NAME", fixed_cost |-> "LINK.FIXED_COST",
     is_directed |-> "LINK.IS_DIRECTED", distance |-> "LINK.DISTANCE",
     time |-> "LINK.TIME"]

ParametersWire ==
    [upper_bound |-> "PARAMETERS.UPPER_BOUND",
     heuristic_used |-> "PARAMETERS.HEURISTIC_USED",
     time_limit_heuristic |-> "PARAMETERS.TIME_LIMIT_HEURISTIC",
     config_file |-> "PARAMETERS.CONFIG_FILE",
     solver_name |-> "PARAMETERS.SOLVER_NAME",
     print_level |-> "PARAMETERS.PRINT_LEVEL",
     cplex_path |-> "PARAMETERS.CPLEX_PATH"]

WireOf(cls) ==
    IF cls = "VehicleType" THEN VehicleTypeWire
    ELSE IF cls = "Link" THEN LinkWire
    ELSE IF cls = "Parameters" THEN ParametersWire
    ELSE PointWire

\* The wire fields emitted whatever their value.
RequiredKeysOf(cls) ==
    IF cls = "VehicleType" THEN VehicleTypeRequiredKeys
    ELSE IF cls = "Link" THEN LinkRequiredKeys
    ELSE IF cls = "Parameters" THEN ParametersRequiredKeys
    ELSE PointRequiredKeys

\* The constructor defaults of the optional fields.
DefaultsOf(cls) ==
    IF cls = "VehicleType" THEN VehicleTypeDefaults
    ELSE IF cls = "Link" THEN LinkDefaults
    ELSE IF cls = "Parameters" THEN ParametersDefaults
    ELSE PointDefaults

\* The parsed dict d has every optional field of obj that differs from its
\* default, with the value of obj.
Recovers(d, obj, defaults) ==
    \A f \in DOMAIN WireOf(obj.cls) :
        ~PyEq(obj[f], defaults[f])
        => /\ WireOf(obj.cls)[f] \in DOMAIN d
           /\ PyEq(d[WireOf(obj.cls)[f]], obj[f])

\* The parsed list has, in the order of the registry, a dict for each entry
\* that recovers it.
RecoversAll(list, reg, defaults) ==
    /\ Len(list) = Len(reg)
    /\ \A i \in 1..Len(reg) : Recovers(list[i], reg[i].value, defaults)

\* C6: the parsed document of a successful str(model) has, for every
\* stored entity in insertion order and for the parameters, every field
\* given a value other than the default of the add operation or of
\* set_parameters, with that value.
C6_RoundTrip ==
    (result.op = "str" /\ result.err = NoError)
    => LET doc == json_loads(result.ret)
       IN /\ RecoversAll(doc.VehicleTypes, vehicle_types, AddVehicleTypeDefaults)
          /\ RecoversAll(doc.Points, points, AddPointDefaults)
          /\ RecoversAll(doc.Links, links, LinkDefaults)
          /\ Recovers(doc.Parameters, parameters, ParametersDefaults)

\* C7: the accessor of an entity called without debug emits no optional
\* field whose value equals the default of the constructor.
C7_DefaultsOmitted ==
    (entity.out # <<>> /\ ~entity.debug)
    => LET obj == entity.obj[1]
       IN \A f \in DOMAIN WireOf(obj.cls) :
              PyEq(obj[f], DefaultsOf(obj.cls)[f])
              => WireOf(obj.cls)[f] \notin DOMAIN entity.out[1]

\* C8: the accessor of an entity called with debug emits every field of the
\* entity.
C8_DebugEmitsAll ==
    (entity.out # <<>> /\ entity.debug)
    => LET obj == entity.obj[1]
       IN /\ RequiredKeysOf(obj.cls) \subseteq DOMAIN entity.out[1]
          /\ \A f \in DOMAIN WireOf(obj.cls) :
                 WireOf(obj.cls)[f] \in DOMAIN entity.out[1]

\* n is an int of [lo, hi].
IntIn(x, lo, hi) == isinstance_int(x) /\ lo <= x.n /\ x.n <= hi

\* The point stored under the id.
PointAt(reg, id) == reg[dict_index(reg, id)].value

\* C9 as stated: add_customer of a valid id the registry lacks, given no
\* id_customer, stores a point whose id_customer is the id; given an
\* id_customer it stores a point of that id_customer, unless it exceeds
\* 1022: then the call fails and no point is added.
C9_AsStated ==
    [][LET id == result'.key
           c == result'.idc
       IN (/\ result'.op = "add_customer"
           /\ IntIn(id, 0, MAX_POINT_ID)
           /\ ~dict_contains(points, id))
          => IF c = <<>>
             THEN /\ dict_contains(points', id)
                  /\ PyEq(PointAt(points', id).id_customer, id)
             ELSE IF c[1].n > MAX_ID_CUSTOMER
             THEN result'.err # NoError /\ points' = points
             ELSE /\ dict_contains(points', id)
                  /\ PyEq(PointAt(points', id).id_customer, c[1])]_vars

\* C9: add_customer of an id that has a hash and that the registry lacks,
\* the registry holding fewer than 1022 points. The id_customer of the
\* point is the one given; it is
\* the id when none is given or when 0 is given. When the id is in
\* [0, 10000] and that id_customer in [0, 1022] the call adds the point
\* with that id_customer; otherwise it raises a PropertyError and adds no
\* point.
C9_AddCustomerIdCustomer ==
    [][LET id == result'.key
           c == IF result'.idc = <<>> \/ PyEq(result'.idc[1], PyInt(0))
                THEN id ELSE result'.idc[1]
       IN (/\ result'.op = "add_customer"
           /\ hashable(id)
           /\ ~dict_contains(points, id)
           /\ Len(points) < MAX_POINTS)
          => IF IntIn(id, 0, MAX_POINT_ID) /\ IntIn(c, 0, MAX_ID_CUSTOMER)
             THEN /\ result'.err = NoError
                  /\ Len(points') = Len(points) + 1
                  /\ dict_contains(points', id)
                  /\ PointAt(points', id).id_customer = c
             ELSE /\ result'.err.type = "PropertyError"
                  /\ points' = points]_vars

\* C9 witness: add_customer(1022) with no id_customer stored a point of
\* id_customer 1022.
C9_Witness ==
    /\ result.op = "add_customer"
    /\ result.key = PyInt(1022)
    /\ result.idc = <<>>
    /\ result.err = NoError
    /\ dict_contains(points, PyInt(1022))
    /\ PointAt(points, PyInt(1022)).id_customer = PyInt(1022)

\* C10: Depot and Customer built from field values valid for a Point are
\* built without error; the Depot has the id_customer of a depot and the
\* Customer the fields Point gives it.
C10_SpecializationsConstruct ==
    /\ entity.kind = "Depot"
       => /\ entity.err = NoError
          /\ entity.obj # <<>>
          /\ entity.obj[1].id_customer = DepotIdCustomer
    /\ entity.kind = "Customer"
       => /\ entity.err = NoError
          /\ entity.obj # <<>>
          /\ entity.obj[1].id_customer = entity.args.id_customer

(***************************************************************************)
(* SpecDepot: depots added with arguments other than the defaults, beside  *)
(* customers, and deleted by delete_depot and by delete_customer.          *)
(***************************************************************************)
\* The calls of add_depot: the ids 0 and 3, and a name, a cost, a capacity
\* and a list of incompatible vehicles that are the default or not.
DepotCalls ==
    {a \in DepotChoices :
        a.service_time = PyInt(0) /\ a.tw_begin = PyInt(0) /\ a.tw_end = PyInt(0)}

\* add_depot(id, name, service_time, cost, tw_begin, tw_end, capacity,
\* incompatible_vehicles)
AddDepotWith(args) ==
    \E a \in args :
        LET r == add_depot(points, a)
        IN /\ Fits(vehicle_types, r.reg, links)
           /\ points' = r.reg
           /\ result' = Outcome("add_depot", r.err, a.id, <<>>, a.id, NoDoc)
           /\ UNCHANGED <<vehicle_types, links, parameters, entity, unread>>

NextDepot ==
    \/ AddDepotWith(DepotCalls)
    \/ AddCustomer({PyInt(0), PyInt(3), PyInt(4)}, OptIdCustomers)
    \/ DeleteDepot({PyInt(0), PyInt(3), PyInt(4)})
    \/ DeleteCustomer({PyInt(0), PyInt(3), PyInt(4)})

SpecDepot == Init /\ [][NextDepot]_vars

\* The registry after is the registry before without the entry of the id,
\* the other entries in their order.
Removed(before, after, id) ==
    /\ dict_contains(before, id)
    /\ ~dict_contains(after, id)
    /\ Len(after) = Len(before) - 1
    /\ \A i \in 1..Len(after) :
           after[i] = before[IF i < dict_index(before, id) THEN i ELSE i + 1]

\* C11: a successful add_depot stores, under its id, a point whose
\* id_customer is 0, whatever the name, cost, capacity and incompatible
\* vehicles it is given; delete_depot of an id the point registry holds
\* removes that point, depot or customer, and of an id it lacks raises the
\* ModelError of delete_customer and removes nothing.
C11_DepotOperations ==
    [][LET id == result'.key
       IN /\ (result'.op = "add_depot" /\ result'.err = NoError)
             => /\ ~dict_contains(points, id)
                /\ dict_contains(points', id)
                /\ PointAt(points', id).id_customer = PyInt(0)
          /\ result'.op = "delete_depot"
             => IF dict_contains(points, id)
                THEN result'.err = NoError /\ Removed(points, points', id)
                ELSE /\ result'.err = ModelError("DEL_POINT_ERROR")
                     /\ points' = points]_vars

\* C11 witness: add_depot(3, name, cost, capacity) with values other than
\* the defaults stored a point of id_customer 0.
C11_Witness ==
    /\ result.op = "add_depot"
    /\ result.err = NoError
    /\ result.key = PyInt(3)
    /\ dict_contains(points, PyInt(3))
    /\ PointAt(points, PyInt(3)).name = PyStr("d")
    /\ PointAt(points, PyInt(3)).penalty_or_cost = PyInt(6)
    /\ PointAt(points, PyInt(3)).demand_or_capacity = PyInt(8)
    /\ PointAt(points, PyInt(3)).id_customer = PyInt(0)

(***************************************************************************)
(* SpecAssign: one entity constructed with one argument other than the     *)
(* default, valid or not, and then assigned to, field by field.            *)
(***************************************************************************)
\* The error the setter of each attribute raises for the value v.
\* penalty_or_cost of a Point has no setter: the assignment binds a plain
\* attribute and raises nothing.
VehicleType_setters(v) ==
    [id |-> VehicleType_id(v), name |-> VehicleType_name(v),
     capacity |-> VehicleType_capacity(v),
     fixed_cost |-> VehicleType_fixed_cost(v),
     var_cost_dist |-> VehicleType_var_cost_dist(v),
     var_cost_time |-> VehicleType_var_cost_time(v),
     max_number |-> VehicleType_max_number(v),
     start_point_id |-> VehicleType_start_point_id(v),
     end_point_id |-> VehicleType_end_point_id(v),
     tw_begin |-> VehicleType_tw_begin(v), tw_end |-> VehicleType_tw_end(v)]

Point_setters(v) ==
    [id |-> Point_id(v), name |-> Point_name(v),
     capacity |-> Point_capacity(v),
     tw_begin |-> Point_tw_begin(v), tw_end |-> Point_tw_end(v),
     id_customer |-> Point_id_customer(v),
     penalty |-> Point_penalty(v),
     cost |-> Point_cost(v), service_time |-> Point_service_time(v),
     demand |-> Point_demand(v),
     demand_or_capacity |-> Point_demand_or_capacity(v), incompatible_vehicles |-> Point_incompatible_vehicles(v),
     penalty_or_cost |-> NoError,
     time_windows |-> Point_time_windows(v)]

Link_setters(v) ==
    [name |-> Link_name(v), fixed_cost |-> Link_fixed_cost(v),
     start_point_id |-> Link_start_point_id(v),
     end_point_id |-> Link_end_point_id(v),
     is_directed |-> Link_is_directed(v), distance |-> Link_distance(v),
     time |-> Link_time(v)]

Parameters_setters(v) ==
    [time_limit |-> Parameters_time_limit(v),
     upper_bound |-> Parameters_upper_bound(v),
     heuristic_used |-> Parameters_heuristic_used(v),
     time_limit_heuristic |-> Parameters_time_limit_heuristic(v),
     config_file |-> Parameters_config_file(v),
     solver_name |-> Parameters_solver_name(v),
     print_level |-> Parameters_print_level(v),
     action |-> Parameters_action(v),
     cplex_path |-> Parameters_cplex_path(v)]

setters(cls, v) ==
    IF cls = "VehicleType" THEN VehicleType_setters(v)
    ELSE IF cls = "Link" THEN Link_setters(v)
    ELSE IF cls = "Parameters" THEN Parameters_setters(v)
    ELSE Point_setters(v)

\* What the setters of a Point bind when they accept the value: penalty
\* and cost bind _penalty_or_cost, demand and capacity bind
\* _demand_or_capacity (and an attribute of their own that nothing reads),
\* time_windows binds the two ends as well.
Point_store(pt, f, v) ==
    IF f \in {"penalty", "cost"} THEN [pt EXCEPT !.priv_penalty_or_cost = <<v>>]
    ELSE IF f \in {"demand", "capacity"} THEN [pt EXCEPT !.demand_or_capacity = v]
    ELSE IF f = "time_windows"
    THEN [pt EXCEPT !.tw_begin = v.items[1], !.tw_end = v.items[2],
                    !.time_windows = v]
    ELSE [pt EXCEPT ![f] = v]

\* obj.f = v: the error raised, and the object afterwards.
setattr(obj, f, v) ==
    LET err == setters(obj.cls, v)[f]
    IN IF err # NoError THEN [err |-> err, obj |-> obj]
       ELSE [err |-> NoError,
             obj |-> IF isinstance_Point(obj) THEN Point_store(obj, f, v)
                     ELSE [obj EXCEPT ![f] = v]]

\* The AttributeError of reading an attribute that was never bound.
AttributeError(name) == [type |-> "AttributeError", prefix |-> "", code |-> name]

\* obj.f read: the error raised, and the value. The penalty and cost of a
\* Point read _penalty_or_cost, its demand and capacity _demand_or_capacity.
getattr(obj, f) ==
    IF isinstance_Point(obj) /\ f \in {"penalty", "cost"}
    THEN IF obj.priv_penalty_or_cost = <<>>
         THEN [err |-> AttributeError("_penalty_or_cost"), val |-> <<>>]
         ELSE [err |-> NoError, val |-> obj.priv_penalty_or_cost]
    ELSE IF isinstance_Point(obj) /\ f \in {"demand", "capacity"}
    THEN [err |-> NoError, val |-> <<obj.demand_or_capacity>>]
    ELSE [err |-> NoError, val |-> <<obj[f]>>]

\* The values tried for a field: valid ones other than the default, and
\* invalid ones (of a wrong type, out of the range, not of the enumeration,
\* of a wrong shape).
Tried(valid, invalid) == [valid |-> valid, invalid |-> invalid]

VehicleTypeTried ==
    [id |-> Tried({PyInt(2)}, {PyInt(0), PyStr("x")}),
     name |-> Tried({}, {PyInt(7)}),
     capacity |-> Tried({PyInt(5)}, {PyInt(-1), PyStr("x")}),
     fixed_cost |-> Tried({PyInt(3)}, {PyStr("x")}),
     var_cost_dist |-> Tried({}, {PyStr("x")}),
     var_cost_time |-> Tried({}, {PyStr("x")}),
     max_number |-> Tried({PyInt(0)}, {PyInt(-1), PyFloat(2)}),
     start_point_id |-> Tried({PyInt(4)}, {PyInt(-1), PyStr("x")}),
     end_point_id |-> Tried({}, {PyInt(-1), PyStr("x")}),
     tw_begin |-> Tried({PyInt(4)}, {PyStr("x")}),
     tw_end |-> Tried({}, {PyStr("x")})]

PointTried ==
    [id |-> Tried({PyInt(4)}, {PyInt(-1), PyInt(10001), PyStr("x")}),
     name |-> Tried({}, {PyInt(7)}),
     capacity |-> Tried({PyInt(9)}, {PyInt(-1), PyStr("x")}),
     tw_begin |-> Tried({PyInt(4)}, {PyStr("x")}),
     tw_end |-> Tried({}, {PyStr("x")}),
     id_customer |-> Tried({PyInt(7)}, {PyInt(-1), PyInt(1023), PyStr("x")}),
     penalty |-> Tried({PyInt(6)}, {PyStr("x")}),
     cost |-> Tried({PyInt(2)}, {PyStr("x")}),
     service_time |-> Tried({}, {PyStr("x")}),
     demand |-> Tried({PyInt(8)}, {PyInt(-1), PyStr("x")}),
     demand_or_capacity |-> Tried({PyInt(3)}, {PyInt(-1), PyStr("x")}),
     incompatible_vehicles |-> Tried({}, {PyInt(1), PyList(<<PyStr("x")>>)}),
     penalty_or_cost |-> Tried({PyInt(1)}, {PyStr("x")}),
     time_windows |-> Tried({PyTuple(<<PyInt(1), PyInt(5)>>)},
                            {PyTuple(<<PyInt(1)>>), PyList(<<PyInt(1), PyInt(5)>>),
                             PyTuple(<<PyInt(1), PyStr("x")>>)})]

LinkTried ==
    [name |-> Tried({PyStr("L0")}, {PyInt(7)}),
     fixed_cost |-> Tried({}, {PyStr("x")}),
     start_point_id |-> Tried({PyInt(1)}, {PyInt(-1), PyStr("x")}),
     end_point_id |-> Tried({}, {PyInt(-1), PyStr("x")}),
     is_directed |-> Tried({PyBool(TRUE)}, {PyInt(1)}),
     distance |-> Tried({PyInt(7)}, {PyInt(-1), PyStr("x")}),
     time |-> Tried({PyInt(3)}, {PyInt(-1), PyStr("x")})]

ParametersTried ==
    [time_limit |-> Tried({PyInt(60)}, {PyInt(-5), PyStr("x")}),
     upper_bound |-> Tried({PyInt(950)}, {PyStr("x")}),
     heuristic_used |-> Tried({}, {PyInt(1)}),
     time_limit_heuristic |-> Tried({PyInt(10)}, {PyInt(-1), PyStr("x")}),
     config_file |-> Tried({}, {PyInt(7)}),
     solver_name |-> Tried({PyStr("CPLEX")}, {PyStr("GUROBI"), PyInt(7)}),
     print_level |-> Tried({PyInt(0)}, {PyInt(3), PyStr("x")}),
     action |-> Tried({PyStr("enumAllFeasibleRoutes")}, {PyStr("run"), PyInt(7)}),
     cplex_path |-> Tried({PyStr("/opt/cplex")}, {PyInt(7)})]

TriedOf(cls) ==
    IF cls = "VehicleType" THEN VehicleTypeTried
    ELSE IF cls = "Link" THEN LinkTried
    ELSE IF cls = "Parameters" THEN ParametersTried
    ELSE PointTried

\* The constructor call of each class with its defaults, and the ids it
\* has no default for.
BaseArgs(cls) ==
    IF cls = "VehicleType"
    THEN WithDefaults([id |-> PyInt(1), start_point_id |-> PyInt(0),
                       end_point_id |-> PyInt(0)], VehicleTypeDefaults)
    ELSE IF cls = "Link" THEN LinkDefaults
    ELSE IF cls = "Parameters" THEN ParametersDefaults
    ELSE WithDefaults([id |-> PyInt(3)], PointDefaults)

\* cls(...)
construct(cls, a) ==
    IF cls = "VehicleType" THEN VehicleType_init(a)
    ELSE IF cls = "Link" THEN Link_init(a)
    ELSE IF cls = "Parameters" THEN Parameters_init(a)
    ELSE Point_init(a)

\* entity = cls(..., f = v, ...): one argument is v, the others the
\* defaults.
Construct ==
    /\ entity = NoEntity
    /\ \E cls \in {"VehicleType", "Point", "Link", "Parameters"} :
       \E f \in DOMAIN BaseArgs(cls) \cap DOMAIN TriedOf(cls) :
       \E v \in TriedOf(cls)[f].valid \cup TriedOf(cls)[f].invalid :
           LET a == [BaseArgs(cls) EXCEPT ![f] = v]
               made == construct(cls, a)
           IN /\ entity' = Made(cls, a, made)
              /\ result' = Outcome("construct", made.err, PyStr(f), <<>>, v, NoDoc)
    /\ UNCHANGED <<vehicle_types, points, links, parameters, unread>>

\* entity.f = v
SetAttr ==
    /\ entity.obj # <<>>
    /\ \E f \in DOMAIN TriedOf(entity.kind) :
       \E v \in TriedOf(entity.kind)[f].valid \cup TriedOf(entity.kind)[f].invalid :
           LET r == setattr(entity.obj[1], f, v)
           IN /\ entity' = [entity EXCEPT !.obj = <<r.obj>>]
              /\ result' = Outcome("setattr", r.err, PyStr(f), <<>>, v, NoDoc)
    /\ UNCHANGED <<vehicle_types, points, links, parameters, unread>>

NextAssign == Construct \/ SetAttr

SpecAssign == Init /\ [][NextAssign]_vars

\* The prefixes of a PropertyError that name each field.
VehicleTypeLabels ==
    [id |-> {"ID_STR"},
     name |-> {"VEHICLE_TYPE.NAME"},
     capacity |-> {"VEHICLE_TYPE.CAPACITY"},
     fixed_cost |-> {"VEHICLE_TYPE.FIXED_COST"},
     var_cost_dist |-> {"VEHICLE_TYPE.VAR_COST_DIST"},
     var_cost_time |-> {"VEHICLE_TYPE.VAR_COST_TIME"},
     max_number |-> {"VEHICLE_TYPE.MAX_NUMBER"},
     start_point_id |-> {"VEHICLE_TYPE.START_POINT_ID"}, end_point_id |-> {"VEHICLE_TYPE.END_POINT_ID"},
     tw_begin |-> {"VEHICLE_TYPE.TIME_WINDOWS_BEGIN"},
     tw_end |-> {"VEHICLE_TYPE.TIME_WINDOWS_END"}]

PointLabels ==
    [id |-> {"POINT.ID"}, name |-> {"POINT.NAME"},
     capacity |-> {"POINT.CAPACITY"},
     tw_begin |-> {"POINT.TIME_WINDOWS_BEGIN"}, tw_end |-> {"POINT.TIME_WINDOWS_END"},
     id_customer |-> {"POINT.ID_CUSTOMER"},
     penalty |-> {"POINT.PENALTY"},
     cost |-> {"POINT.COST"}, service_time |-> {"POINT.SERVICE_TIME"},
     demand |-> {"POINT.DEMAND"},
     demand_or_capacity |-> {"POINT.DEMAND_OR_CAPACITY"},
     incompatible_vehicles |-> {"POINT.INCOMPATIBLE_VEHICLES"},
     penalty_or_cost |-> {"POINT.PENALTY_OR_COST"},
     time_windows |-> {"POINT.TIME_WINDOWS", "POINT.TIME_WINDOWS_BEGIN",
                      "POINT.TIME_WINDOWS_END"}]

LinkLabels ==
    [name |-> {"LINK.NAME"}, fixed_cost |-> {"LINK.FIXED_COST"},
     start_point_id |-> {"LINK.START_POINT_ID"},
     end_point_id |-> {"LINK.END_POINT_ID"},
     is_directed |-> {"LINK.IS_DIRECTED"}, distance |-> {"LINK.DISTANCE"},
     time |-> {"LINK.TIME"}]

ParametersLabels ==
    [time_limit |-> {"PARAMETERS.TIME_LIMIT"},
     upper_bound |-> {"PARAMETERS.UPPER_BOUND"},
     heuristic_used |-> {"PARAMETERS.HEURISTIC_USED"},
     time_limit_heuristic |-> {"PARAMETERS.TIME_LIMIT_HEURISTIC"},
     config_file |-> {"PARAMETERS.CONFIG_FILE"},
     solver_name |-> {"PARAMETERS.SOLVER_NAME"},
     print_level |-> {"PARAMETERS.PRINT_LEVEL"},
     action |-> {"PARAMETERS.ACTION"},
     cplex_path |-> {"PARAMETERS.CPLEX_PATH"}]

LabelsOf(cls) ==
    IF cls = "VehicleType" THEN VehicleTypeLabels
    ELSE IF cls = "Link" THEN LinkLabels
    ELSE IF cls = "Parameters" THEN ParametersLabels
    ELSE PointLabels

\* The three reads of the penalty or cost of a point give the value.
ReadsGive(pt, value) ==
    /\ getattr(pt, "penalty") = [err |-> NoError, val |-> value]
    /\ getattr(pt, "cost") = [err |-> NoError, val |-> value]
    /\ <<get_point(pt, TRUE)["POINT.PENALTY_OR_COST"]>> = value

\* C12: after the construction of a Point, and after every assignment to
\* it, reading penalty, reading cost and the penalty-or-cost field of
\* get_point give the value supplied last: the argument of the
\* constructor, then the value of the last accepted assignment to penalty,
\* cost or penalty_or_cost.
C12_OneStoredValue ==
    [][(entity'.kind = "Point" /\ entity'.obj # <<>>)
       => ReadsGive(entity'.obj[1],
              IF result'.op = "construct" THEN <<entity'.args.penalty_or_cost>>
              ELSE IF /\ result'.key.s \in {"penalty", "cost", "penalty_or_cost"}
                      /\ result'.err = NoError
              THEN <<result'.val>>
              ELSE getattr(entity.obj[1], "penalty").val)]_vars

\* C13: the construction with an invalid value for a field, and the
\* assignment of an invalid value to a field, raise a PropertyError that
\* names the field.
C13_InvalidValueRejected ==
    (/\ result.op \in {"construct", "setattr"}
     /\ result.val \in TriedOf(entity.kind)[result.key.s].invalid)
    => /\ result.err.type = "PropertyError"
       /\ result.err.prefix \in LabelsOf(entity.kind)[result.key.s]

\* x is an int, or a number, of at least lo.
IntFrom(x, lo) == isinstance_int(x) /\ x.n >= lo

NumberFrom(x, lo) == isinstance_number(x) /\ x.n >= lo

\* The fields of the object, as read through its properties, are valid.
ValidObject(o) ==
    IF o.cls = "VehicleType"
    THEN /\ IntFrom(o.id, 1)
         /\ IntFrom(o.capacity, 0) /\ IntFrom(o.max_number, 0)
         /\ IntFrom(o.start_point_id, 0) /\ IntFrom(o.end_point_id, 0)
    ELSE IF o.cls = "Link"
    THEN /\ NumberFrom(o.distance, 0) /\ NumberFrom(o.time, 0)
         /\ IntFrom(o.start_point_id, 0) /\ IntFrom(o.end_point_id, 0)
    ELSE IF o.cls = "Parameters"
    THEN /\ NumberFrom(o.time_limit, 0) /\ NumberFrom(o.time_limit_heuristic, 0)
         /\ isinstance_str(o.solver_name) /\ o.solver_name.s \in SOLVERS
         /\ isinstance_int(o.print_level) /\ o.print_level.n \in PRINT_LEVEL_LIST
         /\ isinstance_str(o.action) /\ o.action.s \in ACTION_NAMES
    ELSE /\ IntIn(o.id, 0, MAX_POINT_ID)
         /\ IntIn(o.id_customer, 0, MAX_ID_CUSTOMER)
         /\ IntFrom(getattr(o, "demand").val[1], 0)
         /\ IntFrom(getattr(o, "capacity").val[1], 0)
         /\ IntFrom(o.demand_or_capacity, 0)

\* C14: every constructed entity is valid after its construction and
\* after every assignment to one of its fields, accepted or rejected; a
\* rejected construction leaves no entity and a rejected assignment leaves
\* the entity as it was.
C14_NoInvalidEntity ==
    [][/\ entity'.obj # <<>> => ValidObject(entity'.obj[1])
       /\ (result'.op = "construct" /\ result'.err # NoError) => entity'.obj = <<>>
       /\ (result'.op = "setattr" /\ result'.err # NoError)
          => entity'.obj = entity.obj]_vars

\* C14 witness: the assignment of 1023 to the id_customer of a Point whose
\* id_customer is 7 was rejected, and the id_customer is 7.
C14_Witness ==
    /\ entity.kind = "Point" /\ entity.obj # <<>>
    /\ result.op = "setattr" /\ result.key = PyStr("id_customer")
    /\ result.val = PyInt(1023)
    /\ result.err = PropertyError("POINT.ID_CUSTOMER", "LESS_MAX_POINTS_PROPERTY")
    /\ entity.obj[1].id_customer = PyInt(7)

(***************************************************************************)
(* SpecParameters: set_parameters called with some of its arguments, and   *)
(* the fields of model.parameters assigned to in between.                  *)
(***************************************************************************)
\* The arguments passed to set_parameters; the last two calls are rejected.
ParametersCalls ==
    {[time_limit |-> PyInt(60)],
     [upper_bound |-> PyInt(950)],
     [solver_name |-> PyStr("CPLEX"), print_level |-> PyInt(0)],
     [heuristic_used |-> PyBool(TRUE), cplex_path |-> PyStr("/opt/cplex")],
     [time_limit |-> PyInt(-5), upper_bound |-> PyInt(950)],
     [action |-> PyStr("run")]}

\* set_parameters(**passed); entity is the Parameters it constructs.
SetParametersWith(calls) ==
    \E passed \in calls :
        LET a == WithDefaults(passed, ParametersDefaults)
            r == set_parameters(parameters, a)
        IN /\ parameters' = r.obj
           /\ result' = Outcome("set_parameters", r.err, PyInt(0), <<>>,
                                PyInt(0), NoDoc)
           /\ entity' = Made("Parameters", passed, Parameters_init(a))
           /\ UNCHANGED <<vehicle_types, points, links, unread>>

\* model.parameters.f = v
AssignParameter ==
    \E f \in DOMAIN ParametersTried :
    \E v \in ParametersTried[f].valid \cup ParametersTried[f].invalid :
        LET r == setattr(parameters, f, v)
        IN /\ parameters' = r.obj
           /\ result' = Outcome("parameters.setattr", r.err, PyStr(f), <<>>,
                                v, NoDoc)
           /\ UNCHANGED <<vehicle_types, points, links, entity, unread>>

NextParameters == SetParametersWith(ParametersCalls) \/ AssignParameter

SpecParameters == Init /\ [][NextParameters]_vars

\* C15: after a successful set_parameters every parameter passed holds the
\* value passed and every other parameter its default, whatever the
\* Parameters held before; a set_parameters that raises leaves the
\* Parameters as they were.
C15_SetParametersReplaces ==
    [][result'.op = "set_parameters"
       => IF result'.err = NoError
          THEN \A f \in DOMAIN ParametersDefaults :
                   parameters'[f] = IF f \in DOMAIN entity'.args
                                    THEN entity'.args[f]
                                    ELSE ParametersDefaults[f]
          ELSE parameters' = parameters]_vars

\* C15 witness: set_parameters(upper_bound=950) succeeded; the upper bound
\* is 950 and the time limit and the solver name are the defaults.
C15_Witness ==
    /\ result.op = "set_parameters"
    /\ result.err = NoError
    /\ entity.args = [upper_bound |-> PyInt(950)]
    /\ parameters.upper_bound = PyInt(950)
    /\ parameters.time_limit = PyInt(DEFAULT_TIME_LIMIT)
    /\ parameters.solver_name = PyStr("CLP")

(***************************************************************************)
(* CreateModel.solve. The call in progress is the last call: result holds  *)
(* its position (pc) and its locals beside the fields of an Outcome. What  *)
(* the platform, the environment, the loader and the engine do is chosen   *)
(* at each step.                                                           *)
(***************************************************************************)
\* What platform.system() is compared with, and any other system.
Platforms == {"WINDOWS_PLATFORM", "LINUX_PLATFORM", "MAC_PLATFORM", "other"}

\* _lib_candidates, in the order they are appended: the library beside the
\* module, the one of the platform folder of lib/, the bare name left to
\* the system.
lib_candidates_platform_first == <<"platform", "beside", "bare">>

lib_candidates == <<"beside", "platform", "bare">>

\* What a statement of the try block raises: anything, an exception that
\* is no Exception included.
NativeFailures == {Raised("OSError"), Raised("KeyboardInterrupt")}

\* The except clause of the try block.
except_native_passing(exc) ==
    IF exc.type = "KeyboardInterrupt" THEN exc ELSE ModelError("BAPCOD_ERROR")

except_native(exc) == ModelError("BAPCOD_ERROR")

\* The except clause of the load of cplex_path.
backend_error_passing(exc) == exc

backend_error(exc) == ModelError("BAPCOD_ERROR")

\* The systems the branch on platform.system() has an arm for.
supported_always(system) == TRUE

supported(system) ==
    system \in {"WINDOWS_PLATFORM", "LINUX_PLATFORM", "MAC_PLATFORM"}

\* The model as a call finds it: what it holds and its solution.
Model ==
    [vehicle_types |-> vehicle_types, points |-> points, links |-> links,
     parameters |-> parameters, solution |-> solution]

\* solve() entered: nothing resolved, loaded or called yet (before is the
\* model as the call found it).
SolveRun ==
    [key |-> PyInt(0), err |-> NoError, text |-> <<>>, op |-> "solve",
     idc |-> <<>>, val |-> PyInt(0),
     ret |-> NoDoc, before |-> Model, calls |-> <<>>, pc |-> "Start",
     platform |-> "", steps |-> <<>>, failed |-> "",
     tried |-> <<>>, loaded |-> <<>>, pointer |-> <<>>, released |-> 0]

\* The run at the step, which it has not passed before.
AtStep(run, step) ==
    IF Len(run.steps) > 0 /\ run.steps[Len(run.steps)] = step THEN run
    ELSE [run EXCEPT !.steps = Append(@, step)]

\* The run ended by the exception that leaves solve().
Fatal_resuming(run, err) == [run EXCEPT !.err = err]

Fatal(run, err) ==
    [run EXCEPT !.pc = "Fatal", !.err = err,
                !.failed = run.steps[Len(run.steps)]]

\* No solve() is in progress and the process lives.
Idle ==
    IF result.op # "solve" THEN TRUE
    ELSE IF result.pc = "Fatal" THEN result.err.type # "SystemExit"
    ELSE result.pc = "ResponseReleased"

InSolve(pc) == result.op = "solve" /\ result.pc = pc

\* A string of the environment is the sequence of its pieces, ":" between
\* two entries of a path. The folder of the dependencies (new_lib), and the
\* library paths a process is started with: none, the empty one, one
\* without the folder, one with it, and two without it of which an entry
\* has the name of the folder as a part.
new_lib == <<"lib/Dependencies">>

Environs ==
    {NoPath, <<<<>>>>, <<<<"/usr/lib">>>>,
     <<new_lib \o <<":", "/usr/lib">>>>,
     <<new_lib \o <<"-old", ":", "/usr/lib">>>>,
     <<<<"/usr/lib", ":">> \o new_lib \o <<"/sub">>>>}

\* new_lib in os.environ[...], of a path that is set: a str in a str.
path_holds(path, dir) ==
    \E i \in 0..(Len(path[1]) - Len(dir)) :
        SubSeq(path[1], i + 1, i + Len(dir)) = dir

\* os.environ[...] += ':' + new_lib
extend_path_unchanged(path, dir) == path

extend_path(path, dir) == <<path[1] \o <<":">> \o dir>>

\* sys.exit(status)
SystemExit(status) == [type |-> "SystemExit", prefix |-> "", code |-> status]

\* The documents an engine answers with: a status and, or not, statistics
\* and routes.
Visit(id) ==
    ("ROUTE.POINT_ID" :> id)
    @@ ("ROUTE.POINT_NAME" :> <<"depot", "north", "south">>[id + 1])
    @@ ("ROUTE.LOAD" :> 10 * id)
    @@ ("ROUTE.TIME" :> 100 * id)
    @@ ("ROUTE.INCOMING_ARC_NAME" :> <<"", "L1", "L2">>[id + 1])

RouteDocument(vehicle_type_id, ids) ==
    ("ROUTE.VEHICLE_TYPE_ID" :> vehicle_type_id)
    @@ ("ROUTE.ROUTE_COST" :> 7 * Len(ids))
    @@ ("ROUTE.VISITED_POINTS" :> [i \in 1..Len(ids) |-> Visit(ids[i])])

StatisticsDocument ==
    ("STATISTICS.SOLUTION_TIME" :> 12)
    @@ ("STATISTICS.SOLUTION_VALUE" :> 21)
    @@ ("STATISTICS.BEST_LOWER_BOUND" :> 20)
    @@ ("STATISTICS.ROOT_LOWER_BOUND" :> 19)
    @@ ("STATISTICS.ROOT_TIME" :> 3)
    @@ ("STATISTICS.NB_BRANCH_AND_BOUND_NODES" :> 5)

RouteLists ==
    {<<>>,
     <<RouteDocument(1, <<0, 1, 0>>)>>,
     <<RouteDocument(1, <<0, 2, 1, 0>>), RouteDocument(2, <<0, 1>>)>>,
     <<RouteDocument(2, <<>>), RouteDocument(1, <<0, 2, 0>>)>>}

ResponseDocument(code, message, statistics, routes) ==
    [Status |-> [code |-> code, message |-> message]]
    @@ (IF statistics THEN [Statistics |-> StatisticsDocument] ELSE <<>>)
    @@ (IF routes = <<>> THEN <<>> ELSE [Solution |-> routes[1]])

\* The steps solve() takes, leaving result (the run) alone changed.
Step(run) ==
    /\ result' = run
    /\ UNCHANGED <<vehicle_types, points, links, parameters, entity, unread>>

\* solve() is called: the branch on platform.system() is taken, and a
\* system that is none of the three raises.
ResolvePlatform ==
    /\ Idle
    /\ \E system \in Platforms :
        LET run == AtStep([SolveRun EXCEPT !.platform = system], "platform")
        IN Step(IF ~supported(system)
                THEN Fatal(run, ModelError("PLATFORM_ERROR"))
                ELSE [run EXCEPT !.pc = "PlatformResolved"])

\* The body of the branch taken. Linux: the library path is not set (the
\* subscript raises), holds the dependencies folder, or lacks it; then it
\* is extended and the process re-executed, and a failed execv exits with
\* status 1. macOS: the four dependencies load or one does not.
PrepareEnvironment ==
    /\ InSolve("PlatformResolved")
    /\ LET run == AtStep(result, "environment")
       IN CASE result.platform = "WINDOWS_PLATFORM" ->
                 Step([run EXCEPT !.pc = "EnvPrepared"])
            [] result.platform = "LINUX_PLATFORM" ->
                 IF environ = NoPath THEN Step(Fatal(run, Raised("KeyError")))
                 ELSE IF path_holds(environ, new_lib)
                 THEN Step([run EXCEPT !.pc = "EnvPrepared"])
                 ELSE \E execv \in BOOLEAN :
                     /\ environ' = extend_path(environ, new_lib)
                     /\ result' = IF execv
                                  THEN [run EXCEPT !.pc = "ProcessRestarted"]
                                  ELSE Fatal(run, SystemExit("1"))
                     /\ UNCHANGED <<vehicle_types, points, links, parameters,
                                    entity, solution, other, shared>>
            [] result.platform = "MAC_PLATFORM" ->
                 \E loads \in BOOLEAN :
                     Step(IF loads THEN [run EXCEPT !.pc = "EnvPrepared"]
                          ELSE Fatal(run, Raised("OSError")))

\* The load of cplex_path, when one is set.
LoadBackend ==
    /\ InSolve("EnvPrepared")
    /\ IF parameters.cplex_path = PyStr("")
       THEN Step([result EXCEPT !.pc = "BackendLoaded"])
       ELSE LET run == AtStep(result, "backend")
            IN \E loads \in BOOLEAN :
                Step(IF loads THEN [run EXCEPT !.pc = "BackendLoaded"]
                     ELSE Fatal(run, backend_error(Raised("OSError"))))

\* One turn of the loop over _lib_candidates: the next candidate loads,
\* which ends the loop, or does not; after the last one nothing is loaded
\* and solve() raises.
LoadCandidate ==
    /\ InSolve("BackendLoaded")
    /\ Len(result.tried) < Len(lib_candidates)
    /\ LET candidate == lib_candidates[Len(result.tried) + 1]
           run == [AtStep(result, "library") EXCEPT !.tried = Append(@, candidate)]
       IN \E loads \in BOOLEAN :
           Step(IF loads
                THEN [run EXCEPT !.loaded = <<candidate>>, !.pc = "LibraryLoaded"]
                ELSE IF Len(run.tried) = Len(lib_candidates)
                THEN Fatal(run, ModelError("LOAD_LIB_ERROR"))
                ELSE run)

\* set_json and the lookup of the two entry points of the library loaded,
\* which has them or not.
Serialize ==
    /\ InSolve("LibraryLoaded")
    /\ LET run == AtStep(result, "serialize")
           r == set_json(vehicle_types, points, links, parameters)
       IN IF r.err # NoError THEN Step(Fatal(run, r.err))
          ELSE \E symbols \in BOOLEAN :
              Step(IF symbols THEN [run EXCEPT !.ret = r.doc, !.pc = "Ready"]
                   ELSE Fatal(run, Raised("AttributeError")))

\* The texts the engine of the explored runs answers with.
SolveResponses ==
    {NotJson,
     <<ResponseDocument(2, "infeasible", TRUE, <<<<RouteDocument(1, <<0, 1, 0>>)>>>>)>>,
     <<ResponseDocument(4, "optimal", TRUE,
                        <<<<RouteDocument(1, <<0, 2, 1, 0>>),
                            RouteDocument(2, <<0, 1>>)>>>>)>>,
     <<ResponseDocument(5, "feasible", TRUE, <<<<RouteDocument(1, <<0, 1, 0>>)>>>>)>>,
     <<ResponseDocument(3, "optimal", FALSE, <<>>)>>}

\* output = solve(input): the engine returns a response, well formed or
\* not, or the call raises.
CallSolve ==
    /\ InSolve("Ready")
    /\ LET run == [AtStep(result, "invoke") EXCEPT !.calls = Append(@, "solveModel")]
       IN \/ \E text \in SolveResponses :
               Step([run EXCEPT !.pointer = <<"output">>, !.text = text,
                                !.pc = "Invoked"])
          \/ \E exc \in NativeFailures : Step(Fatal(run, except_native(exc)))

\* self.__output = c_char_p.from_buffer(output).value
CopyResponse ==
    /\ InSolve("Invoked")
    /\ \/ Step([result EXCEPT !.pc = "Copied"])
       \/ \E exc \in NativeFailures : Step(Fatal(result, except_native(exc)))

\* self.solution = Solution(self.__output): json.loads raises on a
\* response that is not well formed.
ParseResponse ==
    /\ InSolve("Copied")
    /\ LET r == Solution_init(result.text)
       IN IF r.err # NoError THEN Step(Fatal(result, except_native(r.err)))
          ELSE /\ solution' = r.obj
               /\ result' = [result EXCEPT !.pc = "Parsed"]
               /\ UNCHANGED <<vehicle_types, points, links, parameters,
                              entity, environ, other, shared>>

\* free_memory(output)
ReleaseResponse ==
    /\ InSolve("Parsed")
    /\ LET run == [AtStep(result, "release") EXCEPT
                       !.calls = Append(@, "freeMemory"), !.released = @ + 1]
       IN \/ Step([run EXCEPT !.pc = "ResponseReleased"])
          \/ \E exc \in NativeFailures : Step(Fatal(run, except_native(exc)))

\* The steps of a solve() in progress.
SolveStep ==
    \/ PrepareEnvironment
    \/ LoadBackend
    \/ LoadCandidate
    \/ Serialize
    \/ CallSolve
    \/ CopyResponse
    \/ ParseResponse
    \/ ReleaseResponse

\* os.execv has replaced the process by one of the same program and
\* arguments, which starts over in the environment it was left.
Relaunch ==
    /\ InSolve("ProcessRestarted")
    /\ vehicle_types' = <<>>
    /\ points' = <<>>
    /\ links' = <<>>
    /\ parameters' = Parameters_init(ParametersDefaults).obj
    /\ result' = Outcome("init", NoError, PyInt(0), <<>>, PyInt(0), NoDoc)
    /\ entity' = NoEntity
    /\ solution' = Solution_default
    /\ other' = NewModel
    /\ shared' = NoHolder
    /\ UNCHANGED environ

\* A model is built, and solved whenever no solve() is in progress.
NextSolve ==
    \/ (Idle /\ AddVehicleType({WithDefaults([id |-> PyInt(1),
                                                start_point_id |-> PyInt(0),
                                                end_point_id |-> PyInt(0)],
                                               AddVehicleTypeDefaults)}))
    \/ (Idle /\ AddPoint({PyInt(1)}, {<<>>}))
    \/ (Idle /\ AddLink({[LinkDefaults EXCEPT !.name = PyStr("L0")]}))
    \/ (Idle /\ SetParameters({ParametersDefaults,
                   [ParametersDefaults EXCEPT !.cplex_path = PyStr("/opt/cplex")]}))
    \/ ResolvePlatform
    \/ SolveStep
    \/ Relaunch

\* CreateModel.__init__, in a process started with any of the library
\* paths.
InitSolve ==
    /\ vehicle_types = <<>>
    /\ points = <<>>
    /\ links = <<>>
    /\ parameters = Parameters_init(ParametersDefaults).obj
    /\ result = Outcome("init", NoError, PyInt(0), <<>>, PyInt(0), NoDoc)
    /\ entity = NoEntity
    /\ solution = Solution_default
    /\ environ \in Environs
    /\ other = NewModel
    /\ shared = NoHolder

SpecSolve == InitSolve /\ [][NextSolve]_vars

\* solve() is one blocking call: a step that can be taken is taken.
FairSpecSolve == SpecSolve /\ WF_vars(SolveStep)

(***************************************************************************)
(* Properties of solve().                                                  *)
(***************************************************************************)
\* solve() has returned or raised.
SolveEnded ==
    /\ result.op = "solve"
    /\ result.pc \in {"ResponseReleased", "ProcessRestarted", "Fatal"}

\* The number of calls of the entry point made by the run.
CallsOf(run, entry) == Cardinality({i \in 1..Len(run.calls) : run.calls[i] = entry})

\* C16: whenever the solve entry point has returned a response pointer,
\* solve() has called the release entry point on it exactly once when it
\* returns or raises, whatever the exit path.
C16_ReleasedOnce ==
    (SolveEnded /\ result.pointer # <<>>)
        => (CallsOf(result, "freeMemory") = 1 /\ result.released = 1)

\* s is the first Len(s) elements of t.
IsPrefix(s, t) == Len(s) <= Len(t) /\ s = SubSeq(t, 1, Len(s))

\* C17: the candidates are tried in the order beside the module, platform
\* folder, bare name; the one that loads is the last one tried; and when
\* all three have failed solve() has raised the one ModelError of a library
\* not found and has made no native call.
C17_DiscoveryInOrder ==
    result.op = "solve" =>
        /\ IsPrefix(result.tried, <<"beside", "platform", "bare">>)
        /\ result.loaded # <<>> =>
               result.tried[Len(result.tried)] = result.loaded[1]
        /\ (Len(result.tried) = 3 /\ result.loaded = <<>>) =>
               /\ result.pc = "Fatal"
               /\ result.err = ModelError("LOAD_LIB_ERROR")
               /\ result.calls = <<>>

\* The three candidates have failed, and solve() has raised.
C17_Witness ==
    /\ SolveEnded
    /\ result.tried = <<"beside", "platform", "bare">>
    /\ result.loaded = <<>>
    /\ result.err = ModelError("LOAD_LIB_ERROR")

\* solve() has raised out of the given step.
FatalAt(step) ==
    /\ result.op = "solve"
    /\ result.pc = "Fatal"
    /\ result.failed = step

\* C19: a failure of the solve call, of the copy or the parse of the
\* response, or of the release call leaves solve() as one ModelError of
\* the engine invocation, and as no exception of another type.
C19_NativeFailureIsModelError ==
    (FatalAt("invoke") \/ FatalAt("release"))
        => result.err = ModelError("BAPCOD_ERROR")

\* The release call has failed after a response was parsed.
C19_Witness ==
    /\ FatalAt("release")
    /\ result.calls = <<"solveModel", "freeMemory">>
    /\ result.err.type = "ModelError"

\* C20: a library that does not load, be it the one of cplex_path or the
\* last candidate of the engine, is reported with an error other than the
\* one of a native call that failed.
C20_LoadingErrorsDistinct ==
    (FatalAt("backend") \/ FatalAt("library"))
        => \A exc \in NativeFailures : result.err # except_native(exc)

\* The steps of solve() in their order, without the load of a backend when
\* cplex_path is not set, and the steps of the run among them.
StepOrder(backend) ==
    SelectSeq(<<"platform", "environment", "backend", "library", "invoke",
                "release">>,
              LAMBDA s : s # "backend" \/ backend)

StepsTaken(run) == SelectSeq(run.steps, LAMBDA s : s # "serialize")

\* The run is at one position, which agrees with what it has done: it has
\* released the response it was given, or the process was replaced before
\* anything was loaded, or an exception has left it.
OneOutcome(run) ==
    CASE run.pc = "ResponseReleased" ->
             run.err = NoError /\ run.released = 1 /\ run.failed = ""
      [] run.pc = "ProcessRestarted" ->
             run.err = NoError /\ run.tried = <<>> /\ run.calls = <<>>
      [] run.pc = "Fatal" -> run.err # NoError /\ run.failed # ""
      [] OTHER -> run.err = NoError /\ run.failed = ""

SolveInOrder ==
    result.op = "solve" =>
        /\ \E backend \in BOOLEAN :
               IsPrefix(StepsTaken(result), StepOrder(backend))
        /\ CallsOf(result, "solveModel") > 0 => result.loaded # <<>>
        /\ OneOutcome(result)

\* A run that has ended takes no further step.
EndedForGood ==
    SolveEnded =>
        \/ result' = result
        \/ result'.op # "solve"
        \/ result'.steps = <<"platform">>

\* C18: solve() takes its steps in the order platform resolution,
\* environment preparation, load of the backend if any, load of the
\* engine, native invocation, release; it does not call the solve entry
\* point before a library is loaded; and it ends, for good, in one of
\* ResponseReleased, ProcessRestarted and the fatal error.
C18_SolveStateMachine ==
    /\ []SolveInOrder
    /\ [][EndedForGood]_vars
    /\ (result.op = "solve") ~> SolveEnded

\* The release call, the last step, has raised: every step was taken, in
\* a model with a backend to load.
C18_Witness ==
    /\ FatalAt("release")
    /\ StepsTaken(result) = StepOrder(TRUE)
    /\ result.loaded # <<>>

\* The run has passed the given step.
Passed(run, step) == \E i \in 1..Len(run.steps) : run.steps[i] = step

\* C21: the load of the backend is attempted exactly when cplex_path is
\* not empty, and before any candidate of the engine is tried; when it
\* fails solve() has raised a ModelError, has tried no candidate and has
\* made no native call.
C21_BackendLoad ==
    result.op = "solve" =>
        /\ Passed(result, "backend") => parameters.cplex_path # PyStr("")
        /\ Passed(result, "library") =>
               (Passed(result, "backend") <=> parameters.cplex_path # PyStr(""))
        /\ FatalAt("backend") =>
               /\ result.err.type = "ModelError"
               /\ result.tried = <<>>
               /\ result.loaded = <<>>
               /\ result.calls = <<>>

\* The backend of a model with a cplex_path has not loaded.
C21_Witness ==
    /\ FatalAt("backend")
    /\ parameters.cplex_path = PyStr("/opt/cplex")

\* C22: on a system that is none of the three, solve() has raised the
\* ModelError of the platform at its first step: nothing of the
\* environment was prepared, no library was tried, no native call made.
C22_UnsupportedPlatform ==
    (result.op = "solve" /\ ~(result.platform \in
                                {"WINDOWS_PLATFORM", "LINUX_PLATFORM", "MAC_PLATFORM"})) =>
        /\ result.pc = "Fatal"
        /\ result.err = ModelError("PLATFORM_ERROR")
        /\ result.steps = <<"platform">>
        /\ result.tried = <<>>
        /\ result.loaded = <<>>
        /\ result.calls = <<>>

\* solve() has raised on a system that is none of the three.
C22_Witness ==
    /\ FatalAt("platform")
    /\ result.platform = "other"

(***************************************************************************)
(* The time window of a Point.                                             *)
(***************************************************************************)
\* C30: in every state of a Point reached by construction and assignments,
\* time_windows is the pair (tw_begin, tw_end), and get_point emits for the
\* begin and the end of the window the values last assigned.
C30_TimeWindowsAgree ==
    (entity.kind = "Point" /\ entity.obj # <<>>) =>
        LET pt == entity.obj[1]
            out == get_point(pt, TRUE)
        IN /\ pt.time_windows = PyTuple(<<pt.tw_begin, pt.tw_end>>)
           /\ out["POINT.TIME_WINDOWS_BEGIN"] = getattr(pt, "tw_begin").val[1]
           /\ out["POINT.TIME_WINDOWS_END"] = getattr(pt, "tw_end").val[1]

(***************************************************************************)
(* The restart of the process.                                             *)
(***************************************************************************)
\* The entries of a path, which ":" separates.
RECURSIVE entries(_)
entries(string) ==
    IF \A i \in 1..Len(string) : string[i] # ":" THEN <<string>>
    ELSE LET i == CHOOSE i \in 1..Len(string) :
                      /\ string[i] = ":"
                      /\ \A j \in 1..(i - 1) : string[j] # ":"
         IN <<SubSeq(string, 1, i - 1)>>
                \o entries(SubSeq(string, i + 1, Len(string)))

\* The library path is set and lists the folder of the dependencies.
ListsDependencies(path) ==
    /\ path # <<>>
    /\ \E i \in 1..Len(entries(path[1])) : entries(path[1])[i] = new_lib

\* solve() comes to re-execute the process, with success or not.
Restarting ==
    /\ result.op = "solve" /\ result.pc = "PlatformResolved"
    /\ result'.op = "solve"
    /\ \/ result'.pc = "ProcessRestarted"
       \/ result'.pc = "Fatal" /\ result'.err.type = "SystemExit"

\* C23: solve() re-executes the process only when the library path is set
\* and does not list the folder of the dependencies, which it lists from
\* then on; the process relaunched starts over in that environment, so it
\* does not restart again; and a re-execution that fails ends the process
\* with the status 1, after which nothing runs.
C23_RestartOnce ==
    [][/\ Restarting =>
              /\ environ # <<>> /\ ~ListsDependencies(environ)
              /\ ListsDependencies(environ')
       /\ ListsDependencies(environ) =>
              (ListsDependencies(environ') /\ ~Restarting)
       /\ (result.op = "solve" /\ result.pc = "ProcessRestarted") =>
              (result'.op = "init" /\ environ' = environ)
       /\ (result'.op = "solve" /\ result'.err.type = "SystemExit") =>
              result'.err.code = "1"
       /\ ~(result.op = "solve" /\ result.err.type = "SystemExit")]_vars

\* The process relaunched solves with the path the restart has left it.
C23_Witness ==
    /\ result.op = "solve" /\ result.pc = "EnvPrepared"
    /\ result.platform = "LINUX_PLATFORM"
    /\ environ = <<<<"/usr/lib", ":", "lib/Dependencies">>>>

(***************************************************************************)
(* SpecResponse: Solution constructed from the texts of responses.         *)
(***************************************************************************)
ResponseTexts ==
    {<<>>, NotJson}
    \cup {<<ResponseDocument(code, message, statistics, routes)>> :
              code \in 0..MaxStatus, message \in {"done", "stopped"},
              statistics \in BOOLEAN,
              routes \in {<<>>} \cup {<<l>> : l \in RouteLists}}

\* Solution(text)
NewSolution ==
    \E text \in ResponseTexts :
        LET made == Solution_init(text)
        IN /\ entity' = Made("Solution", <<text>>, made)
           /\ result' = Outcome("Solution", made.err, PyInt(0), <<>>, PyInt(0), NoDoc)
           /\ UNCHANGED <<vehicle_types, points, links, parameters, unread>>

NextResponse == NewSolution

SpecResponse == Init /\ [][NextResponse]_vars

\* A Solution was constructed from the text of a document, which carries
\* statistics, routes or none of them as stated.
Answered(statistics, routes) ==
    /\ entity.kind = "Solution"
    /\ entity.args # <<<<>>>> /\ entity.args # <<NotJson>>
    /\ ("Statistics" \in DOMAIN entity.args[1][1]) = statistics
    /\ ("Solution" \in DOMAIN entity.args[1][1]) = routes

AnsweredDocument == entity.args[1][1]

\* The routes are those of the documents, in their order, and every list
\* of a route has one element for each visit, taken from that visit.
RoutesFrom(routes, docs) ==
    /\ Len(routes) = Len(docs)
    /\ \A i \in 1..Len(docs) :
        LET visits == docs[i]["ROUTE.VISITED_POINTS"]
            lists == <<<<routes[i].point_ids, "ROUTE.POINT_ID">>,
                       <<routes[i].point_names, "ROUTE.POINT_NAME">>,
                       <<routes[i].cap_consumption, "ROUTE.LOAD">>,
                       <<routes[i].time_consumption, "ROUTE.TIME">>,
                       <<routes[i].incoming_arc_names, "ROUTE.INCOMING_ARC_NAME">>>>
        IN /\ routes[i].route = docs[i]
           /\ \A l \in 1..Len(lists) :
               /\ Len(lists[l][1]) = Len(visits)
               /\ \A j \in 1..Len(visits) :
                   lists[l][1][j] = visits[j][lists[l][2]]

\* The status is not one of a solved problem or of enumerated routes.
Unsolved(code) == code <= 2 \/ code = 6 \/ code = 7 \/ code >= 9

\* C24: a response whose status is outside the solved range gives a
\* Solution without statistics and without routes, whatever statistics and
\* routes the document carries, with the status and the message of the
\* document.
C24_UnsolvedIsEmpty ==
    ((Answered(TRUE, TRUE) \/ Answered(TRUE, FALSE) \/ Answered(FALSE, TRUE)
      \/ Answered(FALSE, FALSE)) /\ Unsolved(AnsweredDocument.Status.code)) =>
        /\ entity.err = NoError
        /\ entity.obj[1].routes = <<>>
        /\ entity.obj[1].statistics = <<>>
        /\ entity.obj[1].status = AnsweredDocument.Status.code
        /\ entity.obj[1].message = AnsweredDocument.Status.message

\* The response of status 2 carries statistics and two routes.
C24_Witness ==
    /\ Answered(TRUE, TRUE)
    /\ AnsweredDocument.Status.code = 2
    /\ Len(AnsweredDocument.Solution) = 2
    /\ entity.obj # <<>> /\ entity.obj[1].routes = <<>>

\* C25: a response of status 3, 4 or 5 with N routes gives N Route values
\* in the order of the document, the lists of each as long as its visits
\* and element i of each list taken from visit i.
C25_RoutesInOrder ==
    (Answered(TRUE, TRUE) /\ AnsweredDocument.Status.code \in {3, 4, 5}) =>
        /\ entity.err = NoError
        /\ RoutesFrom(entity.obj[1].routes, AnsweredDocument.Solution)

\* Two routes of status 4, the first of four visits.
C25_Witness ==
    /\ Answered(TRUE, TRUE)
    /\ AnsweredDocument.Status.code = 4
    /\ entity.obj # <<>> /\ Len(entity.obj[1].routes) = 2
    /\ entity.obj[1].routes[1].point_ids = <<0, 2, 1, 0>>
    /\ entity.obj[1].routes[2].point_names = <<"depot", "north">>

\* C26: for the status 8 the routes of the document are parsed as for a
\* solved status, and the statistics are not: they stay empty.
C26_EnumeratedRoutes ==
    ((Answered(TRUE, TRUE) \/ Answered(FALSE, TRUE))
     /\ AnsweredDocument.Status.code = 8) =>
        /\ entity.err = NoError
        /\ RoutesFrom(entity.obj[1].routes, AnsweredDocument.Solution)
        /\ entity.obj[1].statistics = <<>>

\* Routes of status 8 in a document that carries statistics.
C26_Witness ==
    /\ Answered(TRUE, TRUE)
    /\ AnsweredDocument.Status.code = 8
    /\ entity.obj # <<>> /\ Len(entity.obj[1].routes) = 2
    /\ entity.obj[1].routes[2].point_ids = <<0, 2, 0>>

(***************************************************************************)
(* The solution of the model.                                              *)
(***************************************************************************)
\* The document of the response of the run.
Response == result.text[1]

\* C28: after a solve() that returns, the solution of the model is the one
\* of the response of that call alone: its document, its status and
\* message, its statistics if the status is a solved one, and its routes
\* if the status has routes, none of an earlier solve remaining.
C28_SolutionReplaced ==
    InSolve("ResponseReleased") =>
        /\ solution.json = result.text
        /\ solution.status = Response.Status.code
        /\ solution.message = Response.Status.message
        /\ IF Response.Status.code \in {3, 4, 5, 8}
           THEN RoutesFrom(solution.routes, Response.Solution)
           ELSE solution.routes = <<>>
        /\ IF Response.Status.code \in {3, 4, 5}
           THEN /\ solution.statistics # <<>>
                /\ solution.statistics[1].json_input = Response.Statistics
           ELSE solution.statistics = <<>>

\* A model whose solution had two routes was solved again, with one route.
C28_Witness ==
    /\ InSolve("ResponseReleased")
    /\ Len(result.before.solution.routes) = 2
    /\ Len(solution.routes) = 1
    /\ solution.status = 5

\* C29: a solve() that has raised leaves the solution of the model, its
\* registries and its parameters as the call found them.
C29_RaiseLeavesModel ==
    (result.op = "solve" /\ result.pc = "Fatal") => Model = result.before

(***************************************************************************)
(* SpecInstances: two CreateModel of one process. The first is the one of  *)
(* the registries, the second is other. A point added without              *)
(* incompatible_vehicles is given the default of add_point, which is one   *)
(* list for every call, and the point stores the list it is given: shared  *)
(* holds its items and the points that hold it.                            *)
(***************************************************************************)
\* m.add_vehicle_type(1, 0, 0)
AddVehicleTypeOn(i) ==
    LET a == WithDefaults([id |-> PyInt(1), start_point_id |-> PyInt(0),
                           end_point_id |-> PyInt(0)], AddVehicleTypeDefaults)
        r == add_vehicle_type(Attr(i, "vehicle_types"), a)
    IN /\ Mutated(i, "vehicle_types", r.reg)
       /\ result' = On(i, "add_vehicle_type", r.err, a.id)
       /\ UNCHANGED <<entity, solution, environ, shared>>

\* m.add_link("L0")
AddLinkOn(i) ==
    LET a == WithDefaults([name |-> PyStr("L0")], LinkDefaults)
        r == add_link(Attr(i, "links"), a)
    IN /\ Mutated(i, "links", r.reg)
       /\ result' = On(i, "add_link", r.err, a.name)
       /\ UNCHANGED <<entity, solution, environ, shared>>

\* m.add_point(1) and m.add_point(1, incompatible_vehicles=[7])
AddPointOn(i) ==
    \E id \in {PyInt(1)}, given \in BOOLEAN :
        LET list == IF given THEN PyList(<<PyInt(7)>>) ELSE PyList(shared.items)
            r == add_point(PointsOf(i),
                           WithDefaults([id |-> id, incompatible_vehicles |-> list],
                                        AddPointDefaults))
        IN /\ Mutated(i, "points", r.reg)
           /\ shared' = IF r.err = NoError /\ ~given
                        THEN [shared EXCEPT !.held = @ \cup Holders(i, id)]
                        ELSE shared
           /\ result' = On(i, "add_point", r.err, id)
           /\ UNCHANGED <<entity, solution, environ>>

\* m.delete_customer(1)
DeletePointOn(i) ==
    \E id \in {PyInt(1)} :
        LET r == delete_customer(PointsOf(i), id)
        IN /\ Mutated(i, "points", r.reg)
           /\ shared' = IF r.err = NoError
                        THEN [shared EXCEPT !.held = @ \ Holders(i, id)]
                        ELSE shared
           /\ result' = On(i, "delete_customer", r.err, id)
           /\ UNCHANGED <<entity, solution, environ>>

\* The registry of instance i after x was appended to the lists that the
\* points of targets hold.
list_append(reg, i, targets, x) ==
    [k \in 1..Len(reg) |->
        IF <<i, reg[k].key>> \in targets
        THEN [reg[k] EXCEPT !.value.incompatible_vehicles =
                                PyList(Append(@.items, x))]
        ELSE reg[k]]

\* m.points[id].incompatible_vehicles.append(5): the list grows, and with
\* it every point that holds the same list.
AppendOn(i) ==
    \E k \in 1..Len(PointsOf(i)) :
        LET id == PointsOf(i)[k].key
            is_default == <<i, id>> \in shared.held
            targets == IF is_default THEN shared.held ELSE Holders(i, id)
        IN /\ Len(PointsOf(i)[k].value.incompatible_vehicles.items) < MaxItems
           /\ Bound("points", list_append(points, 1, targets, PyInt(5)),
                              list_append(other.points, 2, targets, PyInt(5)))
           /\ shared' = IF is_default
                        THEN [shared EXCEPT !.items = Append(@, PyInt(5))]
                        ELSE shared
           /\ result' = On(i, "incompatible_vehicles.append", NoError, id)
           /\ UNCHANGED <<entity, solution, environ>>

\* m.points[id].name = "north"
AssignNameOn(i) ==
    \E k \in 1..Len(PointsOf(i)) :
        LET reg == [PointsOf(i) EXCEPT ![k].value.name = PyStr("north")]
        IN /\ Point_name(PyStr("north")) = NoError
           /\ Mutated(i, "points", reg)
           /\ result' = On(i, "point.name", NoError, PointsOf(i)[k].key)
           /\ UNCHANGED <<entity, solution, environ, shared>>

\* m.set_parameters(time_limit=60): the Parameters made is assigned to
\* the attribute.
SetParametersOn(i) ==
    LET a == [ParametersDefaults EXCEPT !.time_limit = PyInt(60)]
        r == set_parameters(Attr(i, "parameters"), a)
    IN /\ Rebound(i, "parameters", r.obj)
       /\ shared' = IF r.err = NoError
                    THEN [shared EXCEPT !.same = @ \ {"parameters"}]
                    ELSE shared
       /\ result' = On(i, "set_parameters", r.err, PyInt(0))
       /\ UNCHANGED <<entity, solution, environ>>

\* m.parameters.time_limit = 60 and m.parameters.time_limit = 300
AssignTimeLimitOn(i) ==
    \E v \in {PyInt(60), PyInt(300)} :
        LET r == setattr(Attr(i, "parameters"), "time_limit", v)
        IN /\ Mutated(i, "parameters", r.obj)
           /\ result' = On(i, "parameters.setattr", r.err, PyStr("time_limit"))
           /\ UNCHANGED <<entity, solution, environ, shared>>

NextInstances ==
    \E i \in {1, 2} :
        \/ AddPointOn(i)
        \/ DeletePointOn(i)
        \/ AppendOn(i)
        \/ AssignNameOn(i)
        \/ SetParametersOn(i)
        \/ SetAttribute(i, "points", {0, 3 - i})

SpecInstances == Init /\ [][NextInstances]_vars

(***************************************************************************)
(* SpecShare: two CreateModel of which one is assigned the vehicle types,  *)
(* the links or the parameters of the other.                               *)
(***************************************************************************)
NextShare ==
    \E i \in {1, 2} :
        \/ AddVehicleTypeOn(i)
        \/ AddLinkOn(i)
        \/ SetParametersOn(i)
        \/ AssignTimeLimitOn(i)
        \/ \E f \in Attributes \ {"points"} : SetAttribute(i, f, {0, 3 - i})

SpecShare == Init /\ [][NextShare]_vars

\* C27: while no attribute of the one CreateModel has been assigned the
\* object of the other, no call on one CreateModel, no assignment to a
\* field of an entity it stores and no change of a value of such a field
\* changes the registries, the entities or the parameters of the other.
C27_InstancesIndependent ==
    [][shared.same = {} =>
           /\ result'.on = 1 => other' = other
           /\ result'.on = 2 =>
                  UNCHANGED <<vehicle_types, points, links, parameters>>]_vars

====
